---- MODULE Spec2Model ----
(***************************************************************************)
(* Funding pallet of the Polimec node                                      *)
(* (polimec-skeleton/pallets/funding/src/functions.rs and types.rs).       *)
(*                                                                         *)
(* The pallet storage is modelled as one record S; every do_* function of  *)
(* functions.rs is an operator from a storage record to the storage record *)
(* the call leaves behind, with the call's outcome in S.res.  An operator  *)
(* performs the writes of the function in the order of the source, so a    *)
(* call that returns an error after a write leaves that write in place.    *)
(***************************************************************************)
EXTENDS Integers, Sequences, FiniteSets, TLC

(***************************************************************************)
(* Bounds of the model                                                     *)
(***************************************************************************)
MaxProjects == 2
MaxBlock == 18
MaxBids == 4
MaxContribs == 3
MaxEvaluationBond == 1
InitPlmc == 12
InitFunding == 12
LifecycleProjects == 1
LifecycleBids == 1
CandleFirstBlock == 7
TwoBids == 2
LedgerLastBlock == 13
MetadataLastBlock == 5
ScenarioFunds == 2000000
MaxCandleDuration == 4
MaxRandom == 5
MaxNonce == 2

(* Config parameters of the pallet (Config trait), scaled to small values. *)
MaximumBidsPerUser == 2
MaxContributionsPerUser == 2
MaxProjectsToUpdatePerBlock == 1
EvaluationDuration == 1
AuctionInitializePeriodDuration == 1
EnglishAuctionDuration == 1
CandleAuctionDuration == 3
CommunityFundingDuration == 1
RemainderFundingDuration == 2

(* Perbill::ACCURACY, written as PerbillHi * PerbillLo to keep products in range *)
PerbillHi == 10000
PerbillLo == 100000
PerbillAccuracy == PerbillHi * PerbillLo

None == 0 - 1
Issuer == "issuer"
Users == {"alice", "bob"}
Accounts == {Issuer} \cup Users
ProjectIds == 0 .. (MaxProjects - 1)
Horizon == MaxBlock + 8
Blocks == 0 .. Horizon

Max(a, b) == IF a >= b THEN a ELSE b
Min(a, b) == IF a <= b THEN a ELSE b
SaturatingSub(a, b) == IF a >= b THEN a - b ELSE 0


(***************************************************************************)
(* types.rs                                                                *)
(***************************************************************************)
BlockNumberPair(s, e) == [start |-> s, end |-> e]

(* BlockNumberPair::update: a None argument keeps the stored field *)
PairUpdate(pair, s, e) ==
  [start |-> IF s # None THEN s ELSE pair.start,
   end |-> IF e # None THEN e ELSE pair.end]

NoPair == BlockNumberPair(None, None)

StYetUnknown == [tag |-> "YetUnknown", amount |-> 0, reason |-> "-"]
StAccepted == [tag |-> "Accepted", amount |-> 0, reason |-> "-"]
StRejected(r) == [tag |-> "Rejected", amount |-> 0, reason |-> r]
StPartiallyAccepted(a, r) == [tag |-> "PartiallyAccepted", amount |-> a, reason |-> r]

Vesting(amt) == [amount |-> amt, step |-> 0, next_withdrawal |-> 0]

(* BidInfo::new *)
BidInfoNew(bid_id, project, amount, price, when, bidder, plmc, ct) ==
  [bid_id |-> bid_id, project |-> project, amount |-> amount, price |-> price,
   ticket_size |-> amount * price, when |-> when, bidder |-> bidder,
   plmc_vesting_period |-> plmc, ct_vesting_period |-> ct, status |-> StYetUnknown]

(* an order in which a bid of equal price is greater too *)
BidGreaterOrEqual(a, b) == a.price >= b.price

(* Ord for BidInfo: the price alone decides; bid > lowest_bid *)
BidGreater(a, b) == a.price > b.price

NoProject == [exists |-> FALSE]

(***************************************************************************)
(* Collaborators: PLMC currency with named reserves, bidding currency,     *)
(* assets.  reserve fails when the free balance is short; unreserve frees  *)
(* at most what is reserved.                                               *)
(***************************************************************************)
CanReserveNamed(S, who, amount) == S.FreePlmc[who] >= amount

ReserveNamed(S, class, who, amount) ==
  [S EXCEPT !.FreePlmc[who] = @ - amount,
            !.NamedReserve[who][class] = @ + amount]

UnreserveNamed(S, class, who, amount) ==
  LET a == Min(amount, S.NamedReserve[who][class])
  IN [S EXCEPT !.FreePlmc[who] = @ + a,
               !.NamedReserve[who][class] = @ - a]

CanReserveFunding(S, who, amount) == S.FreeFunding[who] >= amount

ReserveFunding(S, who, amount) ==
  [S EXCEPT !.FreeFunding[who] = @ - amount,
            !.ReservedFunding[who] = @ + amount]

UnreserveFunding(S, who, amount) ==
  LET a == Min(amount, S.ReservedFunding[who])
  IN [S EXCEPT !.FreeFunding[who] = @ + a,
               !.ReservedFunding[who] = @ - a]

Ok(S, op, pid, who) == [S EXCEPT !.res = [op |-> op, pid |-> pid, who |-> who, err |-> "Ok"]]
Err(S, op, pid, who, e) == [S EXCEPT !.res = [op |-> op, pid |-> pid, who |-> who, err |-> e]]

(***************************************************************************)
(* PhaseScheduler: ProjectsToUpdate                                        *)
(***************************************************************************)
(* a probe that takes the requested block whether it has room or not *)
FirstFreeBlockNoProbe(store, b) == b

RECURSIVE FirstFreeBlock(_, _)
FirstFreeBlock(store, b) ==
  IF b >= Horizon \/ Len(store[b]) < MaxProjectsToUpdatePerBlock
  THEN b
  ELSE FirstFreeBlock(store, b + 1)

(* add_to_update_store: probe upwards from block_number for a bucket with room *)
AddToUpdateStore(S, block_number, pid, update_type) ==
  LET b == FirstFreeBlock(S.ProjectsToUpdate, block_number)
  IN [S EXCEPT !.ProjectsToUpdate[b] = Append(@, <<pid, update_type>>)]

HasEntry(store, b, pid) == \E i \in 1 .. Len(store[b]) : store[b][i][1] = pid

InUpdateStore(S, pid) == \E b \in Blocks : HasEntry(S.ProjectsToUpdate, b, pid)

(* a removal that leaves the sequence as it is *)
RemoveNothing(seq, i) == seq

RemoveAt(seq, i) == SubSeq(seq, 1, i - 1) \o SubSeq(seq, i + 1, Len(seq))

(* remove_from_update_store: drop the first entry of the project in the   *)
(* first bucket that holds one                                             *)
RemoveFromUpdateStore(S, pid) ==
  LET b == CHOOSE x \in Blocks :
             /\ HasEntry(S.ProjectsToUpdate, x, pid)
             /\ \A y \in Blocks : HasEntry(S.ProjectsToUpdate, y, pid) => x <= y
      i == CHOOSE k \in 1 .. Len(S.ProjectsToUpdate[b]) :
             /\ S.ProjectsToUpdate[b][k][1] = pid
             /\ \A j \in 1 .. (k - 1) : S.ProjectsToUpdate[b][j][1] # pid
  IN [S EXCEPT !.ProjectsToUpdate[b] = RemoveAt(@, i)]

(***************************************************************************)
(* Round transition functions                                              *)
(***************************************************************************)
Exists(S, pid) == S.ProjectsDetails[pid].exists

MetadataInputs ==
  { [total_allocation_size |-> 2, minimum_price |-> 1,
     ticket_size |-> [minimum |-> 1, maximum |-> None], hash |-> 1],
    [total_allocation_size |-> 3, minimum_price |-> 2,
     ticket_size |-> [minimum |-> None, maximum |-> 6], hash |-> 2] }

(* TicketSize::is_valid *)
TicketSizeIsValid(t) ==
  IF t.minimum # None /\ t.maximum # None THEN t.minimum < t.maximum
  ELSE t.minimum # None \/ t.maximum # None

(* do_create *)
DoCreate(S, issuer, project) ==
  LET project_id == S.NextProjectId
      fundraising_target == project.total_allocation_size * project.minimum_price
      info == [exists |-> TRUE,
               is_frozen |-> FALSE,
               weighted_average_price |-> None,
               fundraising_target |-> fundraising_target,
               project_status |-> "Application",
               phase_transition_points |->
                 [application |-> BlockNumberPair(S.now, None),
                  evaluation |-> NoPair,
                  auction_initialize_period |-> NoPair,
                  english_auction |-> NoPair,
                  random_candle_ending |-> None,
                  candle_auction |-> NoPair,
                  community |-> NoPair,
                  remainder |-> NoPair],
               remaining_contribution_tokens |-> project.total_allocation_size]
  IN IF project.hash # None /\ project.hash \in S.Images
     THEN Err(S, "create", project_id, issuer, "MetadataAlreadyExists")
     ELSE IF project.minimum_price = 0
     THEN Err(S, "create", project_id, issuer, "PriceTooLow")
     ELSE IF ~TicketSizeIsValid(project.ticket_size)
     THEN Err(S, "create", project_id, issuer, "TicketSizeError")
     ELSE Ok([S EXCEPT !.ProjectsMetadata[project_id] = project,
                       !.ProjectsDetails[project_id] = info,
                       !.ProjectsIssuers[project_id] = issuer,
                       !.NextProjectId = @ + 1,
                       !.Images = IF project.hash # None THEN @ \cup {project.hash} ELSE @],
             "create", project_id, issuer)

(* do_evaluation_start *)
DoEvaluationStart(S, pid) ==
  IF ~Exists(S, pid) THEN Err(S, "evaluation_start", pid, "-", "ProjectInfoNotFound")
  ELSE
  LET info == S.ProjectsDetails[pid]
      now == S.now
      evaluation_end_block == now + EvaluationDuration
  IN IF info.project_status # "Application"
     THEN Err(S, "evaluation_start", pid, "-", "ProjectNotInApplicationRound")
     ELSE IF info.is_frozen
     THEN Err(S, "evaluation_start", pid, "-", "ProjectAlreadyFrozen")
     ELSE IF S.ProjectsMetadata[pid].hash = None
     THEN Err(S, "evaluation_start", pid, "-", "MetadataNotProvided")
     ELSE
       LET info2 == [info EXCEPT
                       !.phase_transition_points.application = PairUpdate(@, None, now),
                       !.phase_transition_points.evaluation =
                           PairUpdate(@, now + 1, evaluation_end_block),
                       !.is_frozen = TRUE,
                       !.project_status = "EvaluationRound"]
           S1 == [S EXCEPT !.ProjectsDetails[pid] = info2]
       IN Ok(AddToUpdateStore(S1, evaluation_end_block + 1, pid, "EvaluationEnd"),
             "evaluation_start", pid, "-")

(* a threshold that the boundary value does not reach *)
AboveTenPercent(x) == (10 * x + 49) \div 100 + 1

(* Percent::from_percent(10) * x, rounded to the nearest unit *)
TenPercent(x) == (10 * x + 49) \div 100

(* sum of EvaluationBonds over the project's evaluators *)
RECURSIVE SumBonds(_, _, _)
SumBonds(bonds, pid, accts) ==
  IF accts = {} THEN 0
  ELSE LET a == CHOOSE x \in accts : TRUE
       IN (IF bonds[pid][a] = None THEN 0 ELSE bonds[pid][a])
            + SumBonds(bonds, pid, accts \ {a})

(* do_evaluation_end *)
DoEvaluationEnd(S, pid) ==
  IF ~Exists(S, pid) THEN Err(S, "evaluation_end", pid, "-", "ProjectInfoNotFound")
  ELSE
  LET info == S.ProjectsDetails[pid]
      now == S.now
      evaluation_end_block == info.phase_transition_points.evaluation.end
      total_amount_bonded == SumBonds(S.EvaluationBonds, pid, Accounts)
      evaluation_target == TenPercent(info.fundraising_target)
      start_block == now + 1
      end_block == start_block + AuctionInitializePeriodDuration
      is_funded == total_amount_bonded >= evaluation_target
  IN IF evaluation_end_block = None
     THEN Err(S, "evaluation_end", pid, "-", "FieldIsNone")
     ELSE IF info.project_status # "EvaluationRound"
     THEN Err(S, "evaluation_end", pid, "-", "ProjectNotInEvaluationRound")
     ELSE IF ~(now > evaluation_end_block)
     THEN Err(S, "evaluation_end", pid, "-", "EvaluationPeriodNotEnded")
     ELSE IF is_funded
     THEN LET info2 == [info EXCEPT
                          !.phase_transition_points.auction_initialize_period =
                              PairUpdate(@, start_block, end_block),
                          !.project_status = "AuctionInitializePeriod"]
              S1 == [S EXCEPT !.ProjectsDetails[pid] = info2]
          IN Ok(AddToUpdateStore(S1, end_block + 1, pid, "EnglishAuctionStart"),
                "evaluation_end", pid, "-")
     ELSE LET S1 == [S EXCEPT !.ProjectsDetails[pid].project_status = "EvaluationFailed"]
          IN Ok(AddToUpdateStore(S1, now + 1, pid, "FundingEnd"),
                "evaluation_end", pid, "-")

(* do_english_auction *)
DoEnglishAuction(S, pid) ==
  IF ~Exists(S, pid) THEN Err(S, "english_auction", pid, "-", "ProjectInfoNotFound")
  ELSE
  LET info == S.ProjectsDetails[pid]
      now == S.now
      init_start == info.phase_transition_points.auction_initialize_period.start
      init_end == info.phase_transition_points.auction_initialize_period.end
      english_start_block == now + 1
      english_end_block == now + EnglishAuctionDuration
  IN IF init_start = None \/ init_end = None
     THEN Err(S, "english_auction", pid, "-", "EvaluationPeriodNotEnded")
     ELSE IF ~(now >= init_start)
     THEN Err(S, "english_auction", pid, "-", "TooEarlyForEnglishAuctionStart")
     ELSE IF info.project_status # "AuctionInitializePeriod"
     THEN Err(S, "english_auction", pid, "-", "ProjectNotInAuctionInitializePeriodRound")
     ELSE
       LET info2 == [info EXCEPT
                       !.phase_transition_points.english_auction =
                           PairUpdate(@, english_start_block, english_end_block),
                       !.project_status = "English"]
           S1 == [S EXCEPT !.ProjectsDetails[pid] = info2]
       IN IF now <= init_end /\ ~InUpdateStore(S1, pid)
          THEN Err(S1, "english_auction", pid, "-", "ProjectNotInUpdateStore")
          ELSE LET S2 == IF now <= init_end THEN RemoveFromUpdateStore(S1, pid) ELSE S1
               IN Ok(AddToUpdateStore(S2, english_end_block + 1, pid, "CandleAuctionStart"),
                     "english_auction", pid, "-")

(* do_candle_auction, in a pallet configured with                          *)
(* T::CandleAuctionDuration = candle_auction_duration                      *)
DoCandleAuction(S, pid, candle_auction_duration) ==
  IF ~Exists(S, pid) THEN Err(S, "candle_auction", pid, "-", "ProjectInfoNotFound")
  ELSE
  LET info == S.ProjectsDetails[pid]
      now == S.now
      english_end_block == info.phase_transition_points.english_auction.end
      candle_start_block == now + 1
      candle_end_block == now + candle_auction_duration
  IN IF english_end_block = None
     THEN Err(S, "candle_auction", pid, "-", "FieldIsNone")
     ELSE IF ~(now > english_end_block)
     THEN Err(S, "candle_auction", pid, "-", "TooEarlyForCandleAuctionStart")
     ELSE IF info.project_status # "English"
     THEN Err(S, "candle_auction", pid, "-", "ProjectNotInEnglishAuctionRound")
     ELSE
       LET info2 == [info EXCEPT
                       !.phase_transition_points.candle_auction =
                           PairUpdate(@, candle_start_block, candle_end_block),
                       !.project_status = "Candle"]
           S1 == [S EXCEPT !.ProjectsDetails[pid] = info2]
       IN Ok(AddToUpdateStore(S1, candle_end_block + 1, pid, "CommunityFundingStart"),
             "candle_auction", pid, "-")

(***************************************************************************)
(* Perbill arithmetic                                                      *)
(***************************************************************************)
RECURSIVE Pow10(_)
Pow10(k) == IF k = 0 THEN 1 ELSE 10 * Pow10(k - 1)

(* floor(rem * 10^k / q) for rem < q, one decimal digit at a time *)
RECURSIVE FracDigits(_, _, _)
FracDigits(rem, q, k) ==
  IF k = 0 THEN 0
  ELSE ((rem * 10) \div q) * Pow10(k - 1) + FracDigits((rem * 10) % q, q, k - 1)

(* Perbill::from_rational(p, q): parts per billion, rounded down, at most one *)
PerbillFromRational(p, q) ==
  IF q = 0 \/ p >= q THEN PerbillAccuracy ELSE FracDigits(p, q, 9)

(* Perbill * x: x * parts / 10^9 rounded to the nearest unit, a tie rounds down *)
PerbillMul(parts, x) ==
  LET a == parts \div PerbillLo
      b == parts % PerbillLo
      y == x * b
      z == x * a + (y \div PerbillLo)
      q == z \div PerbillHi
      r == (z % PerbillHi) * PerbillLo + (y % PerbillLo)
  IN q + (IF r > PerbillAccuracy \div 2 THEN 1 ELSE 0)

(***************************************************************************)
(* Sorting                                                                 *)
(***************************************************************************)
(* the sort keys in use: Ord for BidInfo (price ascending),                *)
(* Reverse(bid.price), Reverse(contribution.plmc_vesting.amount)           *)
SortKey(x, kind) ==
  CASE kind = "BidCmp" -> x.price
    [] kind = "ReversePrice" -> 0 - x.price
    [] kind = "ReversePlmc" -> 0 - x.plmc_vesting.amount

(* insert x behind every element that does not come after it: stable *)
RECURSIVE InsertSorted(_, _, _)
InsertSorted(sorted, x, kind) ==
  IF sorted = <<>> THEN <<x>>
  ELSE IF SortKey(x, kind) < SortKey(Head(sorted), kind) THEN <<x>> \o sorted
  ELSE <<Head(sorted)>> \o InsertSorted(Tail(sorted), x, kind)

(* a list left in the order of its pushes *)
PushOrder(seq, kind) == seq

(* slice::sort and slice::sort_by_key are stable *)
RECURSIVE StableSort(_, _)
StableSort(seq, kind) ==
  IF seq = <<>> THEN <<>>
  ELSE InsertSorted(StableSort(SubSeq(seq, 1, Len(seq) - 1), kind), seq[Len(seq)], kind)

(***************************************************************************)
(* Clearing: calculate_weighted_average_price                              *)
(***************************************************************************)
(* The (project, bidder) keys of AuctionsInfo in the order iter_values()   *)
(* visits them; the order is the storage's key-hash order.                 *)
AuctionKeys == ProjectIds \X Users

KeyOrders ==
  { o \in [1 .. Cardinality(AuctionKeys) -> AuctionKeys] :
      \A i, j \in DOMAIN o : i # j => o[i] # o[j] }

RECURSIVE FlattenBids(_, _, _)
FlattenBids(auctions, order, i) ==
  IF i > Len(order) THEN <<>>
  ELSE auctions[order[i][1]][order[i][2]] \o FlattenBids(auctions, order, i + 1)

(* a walk that takes no notice of the cutoff block *)
RECURSIVE WalkBidsNoCutoff(_, _, _, _)
WalkBidsNoCutoff(bids, end_block, total_allocation_size, acc) ==
  IF bids = <<>> THEN acc
  ELSE
    LET bid == Head(bids)
        buyable_amount == SaturatingSub(total_allocation_size, acc.bid_amount_sum)
        next ==
          IF buyable_amount = 0
          THEN [acc EXCEPT !.bids = Append(@, [bid EXCEPT !.status = StRejected("NoTokensLeft")])]
          ELSE IF bid.amount <= buyable_amount
          THEN [bids |-> Append(acc.bids, [bid EXCEPT !.status = StAccepted]),
                bid_amount_sum |-> acc.bid_amount_sum + bid.amount,
                bid_value_sum |-> acc.bid_value_sum + bid.amount * bid.price]
          ELSE [bids |-> Append(acc.bids,
                           [bid EXCEPT !.status = StPartiallyAccepted(buyable_amount, "NoTokensLeft")]),
                bid_amount_sum |-> acc.bid_amount_sum + buyable_amount,
                bid_value_sum |-> acc.bid_value_sum + buyable_amount * bid.price]
    IN WalkBidsNoCutoff(Tail(bids), end_block, total_allocation_size, next)

(* the map over the sorted bids, lines 1562-1586: acc carries the bids     *)
(* already decided and the two running sums                                *)
RECURSIVE WalkBids(_, _, _, _)
WalkBids(bids, end_block, total_allocation_size, acc) ==
  IF bids = <<>> THEN acc
  ELSE
    LET bid == Head(bids)
        buyable_amount == SaturatingSub(total_allocation_size, acc.bid_amount_sum)
        next ==
          IF bid.when > end_block
          THEN [acc EXCEPT !.bids = Append(@, [bid EXCEPT !.status = StRejected("AfterCandleEnd")])]
          ELSE IF buyable_amount = 0
          THEN [acc EXCEPT !.bids = Append(@, [bid EXCEPT !.status = StRejected("NoTokensLeft")])]
          ELSE IF bid.amount <= buyable_amount
          THEN [bids |-> Append(acc.bids, [bid EXCEPT !.status = StAccepted]),
                bid_amount_sum |-> acc.bid_amount_sum + bid.amount,
                bid_value_sum |-> acc.bid_value_sum + bid.amount * bid.price]
          ELSE [bids |-> Append(acc.bids,
                           [bid EXCEPT !.status = StPartiallyAccepted(buyable_amount, "NoTokensLeft")]),
                bid_amount_sum |-> acc.bid_amount_sum + buyable_amount,
                bid_value_sum |-> acc.bid_value_sum + buyable_amount * bid.price]
    IN WalkBids(Tail(bids), end_block, total_allocation_size, next)

BidPosition(list, bid_id) ==
  IF \E i \in 1 .. Len(list) : list[i].bid_id = bid_id
  THEN CHOOSE i \in 1 .. Len(list) :
         /\ list[i].bid_id = bid_id
         /\ \A j \in 1 .. (i - 1) : list[j].bid_id # bid_id
  ELSE 0

(* the storage update loop, lines 1588-1604: every bid is written to the   *)
(* list stored under (project_id, bid.bidder); the first bid that is not   *)
(* found there ends the loop with ImpossibleState                          *)
RECURSIVE StoreBids(_, _, _)
StoreBids(A, project_id, bids) ==
  IF bids = <<>> THEN [auctions |-> A, ok |-> TRUE]
  ELSE
    LET bid == Head(bids)
        list == A[project_id][bid.bidder]
        i == BidPosition(list, bid.bid_id)
    IN IF i = 0 THEN [auctions |-> A, ok |-> FALSE]
       ELSE StoreBids([A EXCEPT ![project_id][bid.bidder][i] = bid], project_id, Tail(bids))

(* the weighted price, lines 1624-1637 *)
RECURSIVE WeightedSum(_, _)
WeightedSum(bids, bid_value_sum) ==
  IF bids = <<>> THEN 0
  ELSE
    LET bid == Head(bids)
        term ==
          IF bid.status.tag = "Accepted"
          THEN PerbillMul(PerbillFromRational(bid.amount * bid.price, bid_value_sum), bid.price)
          ELSE IF bid.status.tag = "PartiallyAccepted"
          THEN PerbillMul(PerbillFromRational(bid.status.amount * bid.price, bid_value_sum), bid.price)
          ELSE 0
    IN term + WeightedSum(Tail(bids), bid_value_sum)

AnyWinning(bids) ==
  \E i \in 1 .. Len(bids) : bids[i].status.tag \in {"Accepted", "PartiallyAccepted"}

(* a storage update that leaves the price unset *)
UpdateProjectInfoNoPrice(info, weighted_token_price, bid_amount_sum) ==
  [info EXCEPT !.remaining_contribution_tokens = SaturatingSub(@, bid_amount_sum)]

(* the storage update of the project, lines 1640-1648 *)
UpdateProjectInfo(info, weighted_token_price, bid_amount_sum) ==
  [info EXCEPT !.weighted_average_price = weighted_token_price,
               !.remaining_contribution_tokens = SaturatingSub(@, bid_amount_sum)]

(* calculate_weighted_average_price; S.res.err is "Ok" or the error *)
CalculateWeightedAveragePrice(S, project_id, end_block, total_allocation_size, order) ==
  LET all == FlattenBids(S.AuctionsInfo, order, 1)
      sorted == StableSort(all, "BidCmp")
      walked == WalkBids(sorted, end_block, total_allocation_size,
                         [bids |-> <<>>, bid_amount_sum |-> 0, bid_value_sum |-> 0])
      stored == StoreBids(S.AuctionsInfo, project_id, walked.bids)
      S1 == [S EXCEPT !.AuctionsInfo = stored.auctions]
  IN IF ~stored.ok
     THEN Err(S1, "community_funding", project_id, "-", "ImpossibleState")
     ELSE IF ~AnyWinning(walked.bids)
     THEN Err(S1, "community_funding", project_id, "-", "NoBidsFound")
     ELSE Ok([S1 EXCEPT
                !.ProjectsDetails[project_id] =
                    UpdateProjectInfo(@, WeightedSum(walked.bids, walked.bid_value_sum),
                                      walked.bid_amount_sum)],
             "community_funding", project_id, "-")

(* select_random_block: random is the value the randomness source returns *)
SelectRandomBlock(candle_starting_block, candle_ending_block, random) ==
  candle_starting_block + (random % (candle_ending_block - candle_starting_block))

RandomValues == 0 .. (CandleAuctionDuration - 2)

(* do_community_funding *)
DoCommunityFunding(S, pid, random, order) ==
  IF ~Exists(S, pid) THEN Err(S, "community_funding", pid, "-", "ProjectInfoNotFound")
  ELSE
  LET info == S.ProjectsDetails[pid]
      now == S.now
      candle_start == info.phase_transition_points.candle_auction.start
      candle_end == info.phase_transition_points.candle_auction.end
  IN IF candle_start = None \/ candle_end = None
     THEN Err(S, "community_funding", pid, "-", "FieldIsNone")
     ELSE IF ~(now > candle_end)
     THEN Err(S, "community_funding", pid, "-", "TooEarlyForCommunityRoundStart")
     ELSE IF info.project_status # "Candle"
     THEN Err(S, "community_funding", pid, "-", "ProjectNotInCandleAuctionRound")
     ELSE IF candle_end - candle_start = 0
     (* select_random_block: random_block % block_range with block_range    *)
     (* zero is a division by zero, at which the function panics            *)
     THEN Err(S, "community_funding", pid, "-", "Panic")
     ELSE
       LET end_block == SelectRandomBlock(candle_start, candle_end, random)
           community_start_block == now + 1
           community_end_block == now + CommunityFundingDuration
           S1 == [S EXCEPT !.Nonce = @ + 1]
           S2 == CalculateWeightedAveragePrice(S1, pid, end_block, info.fundraising_target, order)
       IN IF S2.res.err # "Ok" THEN S2
          ELSE
            LET info2 == [S2.ProjectsDetails[pid] EXCEPT
                            !.phase_transition_points.random_candle_ending = end_block,
                            !.phase_transition_points.community =
                                PairUpdate(@, community_start_block, community_end_block),
                            !.project_status = "CommunityRound"]
                S3 == [S2 EXCEPT !.ProjectsDetails[pid] = info2]
            IN Ok(AddToUpdateStore(S3, community_end_block + 1, pid, "RemainderFundingStart"),
                  "community_funding", pid, "-")

(* a remainder round that may start in the last block of the community round *)
DoRemainderFundingAtEnd(S, pid) ==
  IF ~Exists(S, pid) THEN Err(S, "remainder_funding", pid, "-", "ProjectInfoNotFound")
  ELSE
  LET info == S.ProjectsDetails[pid]
      now == S.now
      community_end_block == info.phase_transition_points.community.end
      remainder_start_block == now + 1
      remainder_end_block == now + RemainderFundingDuration
  IN IF community_end_block = None
     THEN Err(S, "remainder_funding", pid, "-", "FieldIsNone")
     ELSE IF ~(now >= community_end_block)
     THEN Err(S, "remainder_funding", pid, "-", "TooEarlyForRemainderRoundStart")
     ELSE IF info.project_status # "CommunityRound"
     THEN Err(S, "remainder_funding", pid, "-", "ProjectNotInCommunityRound")
     ELSE
       LET info2 == [info EXCEPT
                       !.phase_transition_points.remainder =
                           PairUpdate(@, remainder_start_block, remainder_end_block),
                       !.project_status = "RemainderRound"]
           S1 == [S EXCEPT !.ProjectsDetails[pid] = info2]
       IN Ok(AddToUpdateStore(S1, remainder_end_block + 1, pid, "FundingEnd"),
             "remainder_funding", pid, "-")

(* do_remainder_funding *)
DoRemainderFunding(S, pid) ==
  IF ~Exists(S, pid) THEN Err(S, "remainder_funding", pid, "-", "ProjectInfoNotFound")
  ELSE
  LET info == S.ProjectsDetails[pid]
      now == S.now
      community_end_block == info.phase_transition_points.community.end
      remainder_start_block == now + 1
      remainder_end_block == now + RemainderFundingDuration
  IN IF community_end_block = None
     THEN Err(S, "remainder_funding", pid, "-", "FieldIsNone")
     ELSE IF ~(now > community_end_block)
     THEN Err(S, "remainder_funding", pid, "-", "TooEarlyForRemainderRoundStart")
     ELSE IF info.project_status # "CommunityRound"
     THEN Err(S, "remainder_funding", pid, "-", "ProjectNotInCommunityRound")
     ELSE
       LET info2 == [info EXCEPT
                       !.phase_transition_points.remainder =
                           PairUpdate(@, remainder_start_block, remainder_end_block),
                       !.project_status = "RemainderRound"]
           S1 == [S EXCEPT !.ProjectsDetails[pid] = info2]
       IN Ok(AddToUpdateStore(S1, remainder_end_block + 1, pid, "FundingEnd"),
             "remainder_funding", pid, "-")

(* do_end_funding: no check of the current status; the status is written   *)
(* before the contribution-token asset is created                          *)
DoEndFunding(S, pid) ==
  IF ~Exists(S, pid) THEN Err(S, "end_funding", pid, "-", "ProjectInfoNotFound")
  ELSE
  LET info == S.ProjectsDetails[pid]
      now == S.now
      remaining_cts == info.remaining_contribution_tokens
      remainder_end_block == info.phase_transition_points.remainder.end
  IN IF remainder_end_block # None /\ ~(now > remainder_end_block)
     THEN Err(S, "end_funding", pid, "-", "TooEarlyForFundingEnd")
     ELSE IF remainder_end_block = None /\ remaining_cts # 0
     THEN Err(S, "end_funding", pid, "-", "TooEarlyForFundingEnd")
     ELSE
       LET S1 == [S EXCEPT !.ProjectsDetails[pid].project_status = "FundingEnded"]
       IN IF pid \in S1.Assets
          THEN Err(S1, "end_funding", pid, "-", "AssetCreationFailed")
          ELSE Ok([S1 EXCEPT !.Assets = @ \cup {pid}], "end_funding", pid, "-")

(* do_ready_to_launch *)
DoReadyToLaunch(S, pid) ==
  IF ~Exists(S, pid) THEN Err(S, "ready_to_launch", pid, "-", "ProjectInfoNotFound")
  ELSE IF S.ProjectsDetails[pid].project_status # "FundingEnded"
  THEN Err(S, "ready_to_launch", pid, "-", "ProjectNotInFundingEndedRound")
  ELSE Ok([S EXCEPT !.ProjectsDetails[pid].project_status = "ReadyToLaunch"],
          "ready_to_launch", pid, "-")

(***************************************************************************)
(* Extrinsic functions                                                     *)
(***************************************************************************)
(* an edit_metadata that does not look at is_frozen *)
DoEditMetadataUnfrozen(S, issuer, pid, project_metadata_hash) ==
  IF ~Exists(S, pid) THEN Err(S, "edit_metadata", pid, issuer, "ProjectNotFound")
  ELSE IF S.ProjectsIssuers[pid] # issuer
  THEN Err(S, "edit_metadata", pid, issuer, "NotAllowed")
  ELSE IF project_metadata_hash \in S.Images
  THEN Err(S, "edit_metadata", pid, issuer, "MetadataAlreadyExists")
  ELSE Ok([S EXCEPT !.ProjectsMetadata[pid].hash = project_metadata_hash],
          "edit_metadata", pid, issuer)

(* do_edit_metadata: the new hash is stored in the metadata, Images is     *)
(* left as it is                                                           *)
DoEditMetadata(S, issuer, pid, project_metadata_hash) ==
  IF ~Exists(S, pid) THEN Err(S, "edit_metadata", pid, issuer, "ProjectNotFound")
  ELSE IF S.ProjectsIssuers[pid] # issuer
  THEN Err(S, "edit_metadata", pid, issuer, "NotAllowed")
  ELSE IF S.ProjectsDetails[pid].is_frozen
  THEN Err(S, "edit_metadata", pid, issuer, "Frozen")
  ELSE IF project_metadata_hash \in S.Images
  THEN Err(S, "edit_metadata", pid, issuer, "MetadataAlreadyExists")
  ELSE Ok([S EXCEPT !.ProjectsMetadata[pid].hash = project_metadata_hash],
          "edit_metadata", pid, issuer)

(* do_evaluation_bond; try_mutate commits the bond only when the closure   *)
(* returns Ok                                                              *)
DoEvaluationBond(S, evaluator, pid, amount) ==
  IF ~Exists(S, pid) THEN Err(S, "evaluation_bond", pid, evaluator, "ProjectIssuerNotFound")
  ELSE IF evaluator = S.ProjectsIssuers[pid]
  THEN Err(S, "evaluation_bond", pid, evaluator, "ContributionToThemselves")
  ELSE IF S.ProjectsDetails[pid].project_status # "EvaluationRound"
  THEN Err(S, "evaluation_bond", pid, evaluator, "EvaluationNotStarted")
  ELSE IF ~CanReserveNamed(S, evaluator, amount)
  THEN Err(S, "evaluation_bond", pid, evaluator, "InsufficientBalance")
  ELSE
    LET S1 == [S EXCEPT !.EvaluationBonds[pid][evaluator] =
                            IF @ = None THEN amount ELSE @ + amount]
    IN Ok(ReserveNamed(S1, "Evaluation", evaluator, amount), "evaluation_bond", pid, evaluator)

(* calculate_vesting_periods: the PLMC amount to bond, ticket / multiplier *)
PlmcAmount(multiplier, token_amount, token_price) ==
  IF multiplier = 0 THEN token_amount * token_price
  ELSE (token_amount * token_price) \div multiplier

(* bond_bidding *)
BondBidding(S, caller, pid, amount) ==
  LET info == S.ProjectsDetails[pid]
      bidding_end_block == info.phase_transition_points.candle_auction.end
  IN IF bidding_end_block # None /\ ~(S.now < bidding_end_block)
     THEN Err(S, "bid", pid, caller, "TooLateForBidBonding")
     ELSE IF ~CanReserveNamed(S, caller, amount)
     THEN Err(S, "bid", pid, caller, "InsufficientBalance")
     ELSE
       LET S1 == [S EXCEPT !.BiddingBonds[pid][caller] =
                               IF @ = None THEN amount ELSE @ + amount]
       IN Ok(ReserveNamed(S1, "Bidding", caller, amount), "bid", pid, caller)

(* a bond_contributing that raises the bond before the currency is asked *)
BondContributingUnguarded(S, caller, pid, amount) ==
  LET info == S.ProjectsDetails[pid]
      remainder_end_block == info.phase_transition_points.remainder.end
      S1 == [S EXCEPT !.ContributingBonds[pid][caller] =
                          IF @ = None THEN amount ELSE @ + amount]
  IN IF remainder_end_block # None /\ ~(S.now < remainder_end_block)
     THEN Err(S, "contribute", pid, caller, "TooLateForContributingBonding")
     ELSE IF ~CanReserveNamed(S, caller, amount)
     THEN Err(S1, "contribute", pid, caller, "InsufficientBalance")
     ELSE Ok(ReserveNamed(S1, "Contributing", caller, amount), "contribute", pid, caller)

(* bond_contributing *)
BondContributing(S, caller, pid, amount) ==
  LET info == S.ProjectsDetails[pid]
      remainder_end_block == info.phase_transition_points.remainder.end
  IN IF remainder_end_block # None /\ ~(S.now < remainder_end_block)
     THEN Err(S, "contribute", pid, caller, "TooLateForContributingBonding")
     ELSE IF ~CanReserveNamed(S, caller, amount)
     THEN Err(S, "contribute", pid, caller, "InsufficientBalance")
     ELSE
       LET S1 == [S EXCEPT !.ContributingBonds[pid][caller] =
                               IF @ = None THEN amount ELSE @ + amount]
       IN Ok(ReserveNamed(S1, "Contributing", caller, amount), "contribute", pid, caller)

(* a check of the price alone *)
PriceValid(project, amount, price) == price >= project.minimum_price

(* the price and ticket-size checks of do_bid, lines 836-844; each of them *)
(* fails with BidTooLow                                                    *)
PriceAndTicketValid(project, amount, price) ==
  LET project_ticket_size == amount * price
  IN /\ price >= project.minimum_price
     /\ project.ticket_size.minimum # None
          => project_ticket_size >= project.ticket_size.minimum
     /\ project.ticket_size.maximum # None
          => project_ticket_size <= project.ticket_size.maximum

(* do_bid.  The two saturating_sub calls of lines 871-874 return values    *)
(* that are dropped, so required_plmc_bond stays the whole bond of the bid *)
DoBid(S, bidder, pid, amount, price, multiplier) ==
  IF ~Exists(S, pid) THEN Err(S, "bid", pid, bidder, "ProjectInfoNotFound")
  ELSE
  LET info == S.ProjectsDetails[pid]
      project == S.ProjectsMetadata[pid]
      now == S.now
      bid_id == S.NextBidId
      required_plmc_bond == PlmcAmount(multiplier, amount, price)
      bid == BidInfoNew(bid_id, pid, amount, price, now, bidder,
                        Vesting(required_plmc_bond), Vesting(amount))
      user_bids == S.AuctionsInfo[pid][bidder]
  IN IF bidder = S.ProjectsIssuers[pid]
     THEN Err(S, "bid", pid, bidder, "ContributionToThemselves")
     ELSE IF info.project_status \notin {"English", "Candle"}
     THEN Err(S, "bid", pid, bidder, "AuctionNotStarted")
     ELSE IF ~PriceAndTicketValid(project, amount, price)
     THEN Err(S, "bid", pid, bidder, "BidTooLow")
     ELSE
       LET S1 == BondBidding(S, bidder, pid, required_plmc_bond)
       IN IF S1.res.err # "Ok" THEN S1
          ELSE IF Len(user_bids) < MaximumBidsPerUser
          THEN (* try_push succeeded *)
               IF ~CanReserveFunding(S1, bidder, bid.ticket_size)
               THEN Err(S1, "bid", pid, bidder, "FundingReserveFailed")
               ELSE
                 LET S2 == ReserveFunding(S1, bidder, bid.ticket_size)
                     sorted == StableSort(Append(user_bids, bid), "ReversePrice")
                 IN Ok([S2 EXCEPT !.AuctionsInfo[pid][bidder] = sorted,
                                  !.NextBidId = bid_id + 1],
                       "bid", pid, bidder)
          ELSE (* the list is full: the last element is the lowest bid *)
               LET lowest_bid == user_bids[MaximumBidsPerUser]
                   rest == SubSeq(user_bids, 1, MaximumBidsPerUser - 1)
               IN IF ~BidGreater(bid, lowest_bid)
                  THEN Err(S1, "bid", pid, bidder, "BidTooLow")
                  ELSE
                    LET S2 == UnreserveFunding(S1, lowest_bid.bidder, lowest_bid.ticket_size)
                    IN IF ~CanReserveFunding(S2, bidder, bid.ticket_size)
                       THEN Err(S2, "bid", pid, bidder, "FundingReserveFailed")
                       ELSE
                         LET S3 == ReserveFunding(S2, bidder, bid.ticket_size)
                             sorted == StableSort(Append(rest, bid), "ReversePrice")
                         IN Ok([S3 EXCEPT !.AuctionsInfo[pid][bidder] = sorted,
                                          !.NextBidId = bid_id + 1],
                               "bid", pid, bidder)

(* a purchase that is not capped by the tokens left *)
BuyableTokensUncapped(remaining_contribution_tokens, token_amount) == token_amount

(* do_contribute, lines 979-983: buyable_tokens *)
BuyableTokens(remaining_contribution_tokens, token_amount) ==
  IF remaining_contribution_tokens > token_amount
  THEN token_amount
  ELSE remaining_contribution_tokens

(* do_contribute.  As in do_bid the netting against the bond already held  *)
(* (lines 1008-1011) has no effect on required_plmc_bond                   *)
DoContribute(S, contributor, pid, token_amount, multiplier) ==
  IF ~Exists(S, pid) THEN Err(S, "contribute", pid, contributor, "ProjectIssuerNotFound")
  ELSE
  LET info == S.ProjectsDetails[pid]
      now == S.now
      weighted_average_price == info.weighted_average_price
      buyable_tokens == BuyableTokens(info.remaining_contribution_tokens, token_amount)
      ticket_size == buyable_tokens * weighted_average_price
      required_plmc_bond == PlmcAmount(multiplier, buyable_tokens, weighted_average_price)
      contribution == [contribution_amount |-> ticket_size,
                       plmc_vesting |-> Vesting(required_plmc_bond),
                       ct_vesting |-> Vesting(buyable_tokens)]
      user_contributions == S.Contributions[pid][contributor]
      remaining_cts_after_purchase ==
        SaturatingSub(info.remaining_contribution_tokens, buyable_tokens)
      (* lines 1072-1091: the payment, the token count, the FundingEnd entry *)
      Finish(T) ==
        IF T.FreePlmc[contributor] < ticket_size
        THEN Err(T, "contribute", pid, contributor, "TransferFailed")
        ELSE
          LET T1 == [T EXCEPT !.FreePlmc[contributor] = @ - ticket_size,
                              !.FundBalance[pid] = @ + ticket_size,
                              !.ProjectsDetails[pid].remaining_contribution_tokens =
                                  remaining_cts_after_purchase]
              T2 == IF remaining_cts_after_purchase = 0
                    THEN AddToUpdateStore(T1, now + 1, pid, "FundingEnd")
                    ELSE T1
          IN Ok(T2, "contribute", pid, contributor)
  IN IF weighted_average_price = None
     THEN Err(S, "contribute", pid, contributor, "AuctionNotStarted")
     ELSE IF contributor = S.ProjectsIssuers[pid]
     THEN Err(S, "contribute", pid, contributor, "ContributionToThemselves")
     ELSE IF info.project_status \notin {"CommunityRound", "RemainderRound"}
     THEN Err(S, "contribute", pid, contributor, "AuctionNotStarted")
     ELSE
       LET S1 == BondContributing(S, contributor, pid, required_plmc_bond)
       IN IF S1.res.err # "Ok" THEN S1
          ELSE IF Len(user_contributions) < MaxContributionsPerUser
          THEN Finish([S1 EXCEPT !.Contributions[pid][contributor] =
                          StableSort(Append(user_contributions, contribution), "ReversePlmc")])
          ELSE
            LET lowest == user_contributions[MaxContributionsPerUser]
                rest == SubSeq(user_contributions, 1, MaxContributionsPerUser - 1)
            IN IF ~(contribution.plmc_vesting.amount > lowest.plmc_vesting.amount)
               THEN Err(S1, "contribute", pid, contributor, "ContributionTooLow")
               ELSE IF S1.FundBalance[pid] < lowest.contribution_amount
               THEN Err(S1, "contribute", pid, contributor, "TransferFailed")
               ELSE
                 LET S2 == [S1 EXCEPT !.FundBalance[pid] = @ - lowest.contribution_amount,
                                      !.FreePlmc[contributor] = @ + lowest.contribution_amount]
                     S3 == UnreserveNamed(S2, "Contributing", contributor,
                                          lowest.plmc_vesting.amount)
                     S4 == [S3 EXCEPT
                              !.ContributingBonds[pid][contributor] =
                                  IF @ = None THEN @
                                  ELSE SaturatingSub(@, lowest.plmc_vesting.amount),
                              !.Contributions[pid][contributor] =
                                  StableSort(Append(rest, contribution), "ReversePlmc")]
                 IN Finish(S4)

(* Vesting::calculate_next_withdrawal: the whole amount at once *)
CalculateNextWithdrawal(v) ==
  IF v.amount = 0
  THEN [ok |-> FALSE, amount |-> 0, vesting |-> v]
  ELSE [ok |-> TRUE, amount |-> v.amount,
        vesting |-> [v EXCEPT !.next_withdrawal = @ + v.step, !.amount = 0]]

(* a withdrawal that pays what is left and leaves the schedule as it was *)
WithdrawKeepingSchedule(v, now, unbond_amount) ==
  [vesting |-> v, unbond_amount |-> unbond_amount + v.amount]

(* while let Ok(amount) = plmc_vesting.calculate_next_withdrawal() { .. } *)
RECURSIVE WithdrawDue(_, _, _)
WithdrawDue(v, now, unbond_amount) ==
  LET r == CalculateNextWithdrawal(v)
  IN IF ~r.ok THEN [vesting |-> v, unbond_amount |-> unbond_amount]
     ELSE IF r.vesting.next_withdrawal > now
     THEN [vesting |-> r.vesting, unbond_amount |-> unbond_amount + r.amount]
     ELSE WithdrawDue(r.vesting, now, unbond_amount + r.amount)

(* do_failed_evaluation_unbond_for: the bond is an argument; the amount in *)
(* it is unreserved as far as the named reserve goes and the stored bond   *)
(* is removed                                                              *)
DoFailedEvaluationUnbondFor(S, bond, releaser) ==
  IF ~Exists(S, bond.project)
  THEN Err(S, "failed_evaluation_unbond_for", bond.project, bond.account, "ProjectInfoNotFound")
  ELSE IF S.ProjectsDetails[bond.project].project_status # "EvaluationFailed"
  THEN Err(S, "failed_evaluation_unbond_for", bond.project, bond.account, "EvaluationNotFailed")
  ELSE
    LET S1 == UnreserveNamed(S, "Evaluation", bond.account, bond.amount)
    IN Ok([S1 EXCEPT !.EvaluationBonds[bond.project][bond.account] = None],
          "failed_evaluation_unbond_for", bond.project, bond.account)

(* the loop of do_vested_plmc_bid_unbond_for over the bids of the bidder;  *)
(* a bid whose next withdrawal is in the future is not pushed to new_bids  *)
RECURSIVE UnbondBids(_, _, _)
UnbondBids(S, bids, new_bids) ==
  IF bids = <<>> THEN [S |-> S, new_bids |-> new_bids, err |-> "Ok"]
  ELSE
    LET bid == Head(bids)
    IN IF bid.plmc_vesting_period.next_withdrawal > S.now
       THEN UnbondBids(S, Tail(bids), new_bids)
       ELSE
         LET w == WithdrawDue(bid.plmc_vesting_period, S.now, 0)
             S1 == UnreserveNamed(S, "Bidding", bid.bidder, w.unbond_amount)
         IN IF S1.BiddingBonds[bid.project][bid.bidder] = None
            THEN [S |-> S1, new_bids |-> new_bids, err |-> "FieldIsNone"]
            ELSE UnbondBids(
                   [S1 EXCEPT !.BiddingBonds[bid.project][bid.bidder] =
                                  SaturatingSub(@, w.unbond_amount)],
                   Tail(bids),
                   Append(new_bids, [bid EXCEPT !.plmc_vesting_period = w.vesting]))

(* do_vested_plmc_bid_unbond_for: no check of the status of the project *)
DoVestedPlmcBidUnbondFor(S, releaser, pid, bidder) ==
  IF S.AuctionsInfo[pid][bidder] = <<>>
  THEN Err(S, "vested_plmc_bid_unbond_for", pid, bidder, "BidNotFound")
  ELSE
    LET r == UnbondBids(S, S.AuctionsInfo[pid][bidder], <<>>)
    IN IF r.err # "Ok"
       THEN Err(r.S, "vested_plmc_bid_unbond_for", pid, bidder, r.err)
       ELSE Ok([r.S EXCEPT !.AuctionsInfo[pid][bidder] = r.new_bids],
               "vested_plmc_bid_unbond_for", pid, bidder)

(* the loop of do_vested_contribution_token_bid_mint_for: the status of    *)
(* the bid is not read; T::Assets::mint_into fails for an asset that has   *)
(* not been created                                                        *)
RECURSIVE MintBids(_, _, _)
MintBids(S, bids, new_bids) ==
  IF bids = <<>> THEN [S |-> S, new_bids |-> new_bids, err |-> "Ok"]
  ELSE
    LET bid == Head(bids)
    IN IF bid.ct_vesting_period.next_withdrawal > S.now
       THEN MintBids(S, Tail(bids), new_bids)
       ELSE
         LET w == WithdrawDue(bid.ct_vesting_period, S.now, 0)
             mint_amount == w.unbond_amount
         IN IF bid.project \notin S.Assets
            THEN [S |-> S, new_bids |-> new_bids, err |-> "UnknownAsset"]
            ELSE MintBids(
                   [S EXCEPT !.AssetBalance[bid.project][bid.bidder] = @ + mint_amount],
                   Tail(bids),
                   Append(new_bids, [bid EXCEPT !.ct_vesting_period = w.vesting]))

(* do_vested_contribution_token_bid_mint_for *)
DoVestedContributionTokenBidMintFor(S, releaser, pid, bidder) ==
  IF S.AuctionsInfo[pid][bidder] = <<>>
  THEN Err(S, "vested_contribution_token_bid_mint_for", pid, bidder, "BidNotFound")
  ELSE
    LET r == MintBids(S, S.AuctionsInfo[pid][bidder], <<>>)
    IN IF r.err # "Ok"
       THEN Err(r.S, "vested_contribution_token_bid_mint_for", pid, bidder, r.err)
       ELSE Ok([r.S EXCEPT !.AuctionsInfo[pid][bidder] = r.new_bids],
               "vested_contribution_token_bid_mint_for", pid, bidder)

(* the loop of do_vested_plmc_purchase_unbond_for: the reserve is released, *)
(* ContributingBonds is not written                                         *)
RECURSIVE UnbondContributions(_, _, _, _)
UnbondContributions(S, claimer, contributions, updated_contributions) ==
  IF contributions = <<>>
  THEN [S |-> S, updated_contributions |-> updated_contributions]
  ELSE
    LET contribution == Head(contributions)
    IN IF contribution.plmc_vesting.next_withdrawal > S.now
       THEN UnbondContributions(S, claimer, Tail(contributions), updated_contributions)
       ELSE
         LET w == WithdrawDue(contribution.plmc_vesting, S.now, 0)
         IN UnbondContributions(
              UnreserveNamed(S, "Contributing", claimer, w.unbond_amount),
              claimer, Tail(contributions),
              Append(updated_contributions,
                     [contribution EXCEPT !.plmc_vesting = w.vesting]))

(* do_vested_plmc_purchase_unbond_for *)
DoVestedPlmcPurchaseUnbondFor(S, releaser, pid, claimer) ==
  IF ~Exists(S, pid)
  THEN Err(S, "vested_plmc_purchase_unbond_for", pid, claimer, "ProjectNotFound")
  ELSE IF S.Contributions[pid][claimer] = <<>>
  THEN Err(S, "vested_plmc_purchase_unbond_for", pid, claimer, "BidNotFound")
  ELSE IF S.ProjectsDetails[pid].project_status # "FundingEnded"
  THEN Err(S, "vested_plmc_purchase_unbond_for", pid, claimer, "CannotClaimYet")
  ELSE
    LET r == UnbondContributions(S, claimer, S.Contributions[pid][claimer], <<>>)
    IN Ok([r.S EXCEPT !.Contributions[pid][claimer] = r.updated_contributions],
          "vested_plmc_purchase_unbond_for", pid, claimer)

(* the loop of do_vested_contribution_token_purchase_mint_for *)
RECURSIVE MintContributions(_, _, _, _, _)
MintContributions(S, pid, claimer, contributions, updated_contributions) ==
  IF contributions = <<>>
  THEN [S |-> S, updated_contributions |-> updated_contributions, err |-> "Ok"]
  ELSE
    LET contribution == Head(contributions)
    IN IF contribution.ct_vesting.next_withdrawal > S.now
       THEN MintContributions(S, pid, claimer, Tail(contributions), updated_contributions)
       ELSE
         LET w == WithdrawDue(contribution.ct_vesting, S.now, 0)
             mint_amount == w.unbond_amount
         IN IF pid \notin S.Assets
            THEN [S |-> S, updated_contributions |-> updated_contributions,
                  err |-> "UnknownAsset"]
            ELSE MintContributions(
                   [S EXCEPT !.AssetBalance[pid][claimer] = @ + mint_amount],
                   pid, claimer, Tail(contributions),
                   Append(updated_contributions,
                          [contribution EXCEPT !.ct_vesting = w.vesting]))

(* do_vested_contribution_token_purchase_mint_for *)
DoVestedContributionTokenPurchaseMintFor(S, releaser, pid, claimer) ==
  IF ~Exists(S, pid)
  THEN Err(S, "vested_contribution_token_purchase_mint_for", pid, claimer, "ProjectNotFound")
  ELSE IF S.Contributions[pid][claimer] = <<>>
  THEN Err(S, "vested_contribution_token_purchase_mint_for", pid, claimer, "BidNotFound")
  ELSE IF S.ProjectsDetails[pid].project_status # "FundingEnded"
  THEN Err(S, "vested_contribution_token_purchase_mint_for", pid, claimer, "CannotClaimYet")
  ELSE
    LET r == MintContributions(S, pid, claimer, S.Contributions[pid][claimer], <<>>)
    IN IF r.err # "Ok"
       THEN Err(r.S, "vested_contribution_token_purchase_mint_for", pid, claimer, r.err)
       ELSE Ok([r.S EXCEPT !.Contributions[pid][claimer] = r.updated_contributions],
               "vested_contribution_token_purchase_mint_for", pid, claimer)

(***************************************************************************)
(* The block hook.  Each entry of the bucket of the new block is handed to *)
(* the function of its UpdateType; an entry that fails is skipped and the  *)
(* rest of the bucket still runs.                                          *)
(***************************************************************************)
Dispatch(S, entry, random, order) ==
  LET pid == entry[1]
      update_type == entry[2]
  IN CASE update_type = "EvaluationEnd" -> DoEvaluationEnd(S, pid)
       [] update_type = "EnglishAuctionStart" -> DoEnglishAuction(S, pid)
       [] update_type = "CandleAuctionStart" -> DoCandleAuction(S, pid, CandleAuctionDuration)
       [] update_type = "CommunityFundingStart" -> DoCommunityFunding(S, pid, random, order)
       [] update_type = "RemainderFundingStart" -> DoRemainderFunding(S, pid)
       [] update_type = "FundingEnd" -> DoEndFunding(S, pid)

(* a hook that gives up the bucket at the first entry that fails *)
RECURSIVE RunBucketUntilFailure(_, _, _, _)
RunBucketUntilFailure(S, bucket, random, order) ==
  IF bucket = <<>> THEN S
  ELSE LET T == Dispatch(S, Head(bucket), random, order)
       IN IF T.res.err # "Ok" THEN T
          ELSE RunBucketUntilFailure(T, Tail(bucket), random, order)

RECURSIVE RunBucket(_, _, _, _)
RunBucket(S, bucket, random, order) ==
  IF bucket = <<>> THEN S
  ELSE RunBucket(Dispatch(S, Head(bucket), random, order), Tail(bucket), random, order)

OnInitialize(S, now, random, order) ==
  LET bucket == S.ProjectsToUpdate[now]
      S1 == [S EXCEPT !.now = now,
                      !.ProjectsToUpdate[now] = <<>>,
                      !.res = [op |-> "tick", pid |-> None, who |-> "-", err |-> "Ok"]]
  IN RunBucket(S1, bucket, random, order)

HasClearing(bucket) ==
  \E i \in 1 .. Len(bucket) : bucket[i][2] = "CommunityFundingStart"

(***************************************************************************)
(* State                                                                   *)
(***************************************************************************)
VARIABLES now, ProjectsMetadata, ProjectsDetails, ProjectsIssuers, NextProjectId,
          Images, ProjectsToUpdate, AuctionsInfo, BiddingBonds, ContributingBonds,
          EvaluationBonds, Contributions, NextBidId, Nonce, FreePlmc, NamedReserve,
          FreeFunding, ReservedFunding, FundBalance, Assets, AssetBalance, res, Offered

storage == <<now, ProjectsMetadata, ProjectsDetails, ProjectsIssuers, NextProjectId,
             Images, ProjectsToUpdate, AuctionsInfo, BiddingBonds, ContributingBonds,
             EvaluationBonds, Contributions, NextBidId, Nonce, FreePlmc, NamedReserve,
             FreeFunding, ReservedFunding, FundBalance, Assets, AssetBalance>>

vars == <<storage, res, Offered>>

BondClasses == {"Evaluation", "Bidding", "Contributing"}

(* the storage at genesis: no project, empty maps, endowed accounts *)
Genesis ==
  [now |-> 1,
   ProjectsMetadata |-> [p \in ProjectIds |-> NoProject],
   ProjectsDetails |-> [p \in ProjectIds |-> NoProject],
   ProjectsIssuers |-> [p \in ProjectIds |-> "-"],
   NextProjectId |-> 0,
   Images |-> {},
   ProjectsToUpdate |-> [b \in Blocks |-> <<>>],
   AuctionsInfo |-> [p \in ProjectIds |-> [a \in Accounts |-> <<>>]],
   BiddingBonds |-> [p \in ProjectIds |-> [a \in Accounts |-> None]],
   ContributingBonds |-> [p \in ProjectIds |-> [a \in Accounts |-> None]],
   EvaluationBonds |-> [p \in ProjectIds |-> [a \in Accounts |-> None]],
   Contributions |-> [p \in ProjectIds |-> [a \in Accounts |-> <<>>]],
   NextBidId |-> 0,
   Nonce |-> 0,
   FreePlmc |-> [a \in Accounts |-> InitPlmc],
   NamedReserve |-> [a \in Accounts |-> [c \in BondClasses |-> 0]],
   FreeFunding |-> [a \in Accounts |-> InitFunding],
   ReservedFunding |-> [a \in Accounts |-> 0],
   FundBalance |-> [p \in ProjectIds |-> 0],
   Assets |-> {},
   AssetBalance |-> [p \in ProjectIds |-> [a \in Accounts |-> 0]],
   res |-> [op |-> "genesis", pid |-> None, who |-> "-", err |-> "Ok"]]

Cur ==
  [now |-> now, ProjectsMetadata |-> ProjectsMetadata, ProjectsDetails |-> ProjectsDetails,
   ProjectsIssuers |-> ProjectsIssuers, NextProjectId |-> NextProjectId, Images |-> Images,
   ProjectsToUpdate |-> ProjectsToUpdate, AuctionsInfo |-> AuctionsInfo,
   BiddingBonds |-> BiddingBonds, ContributingBonds |-> ContributingBonds,
   EvaluationBonds |-> EvaluationBonds, Contributions |-> Contributions,
   NextBidId |-> NextBidId, Nonce |-> Nonce, FreePlmc |-> FreePlmc,
   NamedReserve |-> NamedReserve, FreeFunding |-> FreeFunding,
   ReservedFunding |-> ReservedFunding, FundBalance |-> FundBalance, Assets |-> Assets,
   AssetBalance |-> AssetBalance,
   res |-> res]

StateIs(T) ==
  /\ now = T.now
  /\ ProjectsMetadata = T.ProjectsMetadata
  /\ ProjectsDetails = T.ProjectsDetails
  /\ ProjectsIssuers = T.ProjectsIssuers
  /\ NextProjectId = T.NextProjectId
  /\ Images = T.Images
  /\ ProjectsToUpdate = T.ProjectsToUpdate
  /\ AuctionsInfo = T.AuctionsInfo
  /\ BiddingBonds = T.BiddingBonds
  /\ ContributingBonds = T.ContributingBonds
  /\ EvaluationBonds = T.EvaluationBonds
  /\ Contributions = T.Contributions
  /\ NextBidId = T.NextBidId
  /\ Nonce = T.Nonce
  /\ FreePlmc = T.FreePlmc
  /\ NamedReserve = T.NamedReserve
  /\ FreeFunding = T.FreeFunding
  /\ ReservedFunding = T.ReservedFunding
  /\ FundBalance = T.FundBalance
  /\ Assets = T.Assets
  /\ AssetBalance = T.AssetBalance
  /\ res = T.res

Becomes(T) ==
  /\ now' = T.now
  /\ ProjectsMetadata' = T.ProjectsMetadata
  /\ ProjectsDetails' = T.ProjectsDetails
  /\ ProjectsIssuers' = T.ProjectsIssuers
  /\ NextProjectId' = T.NextProjectId
  /\ Images' = T.Images
  /\ ProjectsToUpdate' = T.ProjectsToUpdate
  /\ AuctionsInfo' = T.AuctionsInfo
  /\ BiddingBonds' = T.BiddingBonds
  /\ ContributingBonds' = T.ContributingBonds
  /\ EvaluationBonds' = T.EvaluationBonds
  /\ Contributions' = T.Contributions
  /\ NextBidId' = T.NextBidId
  /\ Nonce' = T.Nonce
  /\ FreePlmc' = T.FreePlmc
  /\ NamedReserve' = T.NamedReserve
  /\ FreeFunding' = T.FreeFunding
  /\ ReservedFunding' = T.ReservedFunding
  /\ FundBalance' = T.FundBalance
  /\ Assets' = T.Assets
  /\ AssetBalance' = T.AssetBalance
  /\ res' = T.res

NoOffers == [p \in ProjectIds |-> [a \in Accounts |-> <<>>]]

Init == StateIs(Genesis) /\ Offered = NoOffers

(***************************************************************************)
(* Actions: one per extrinsic, one for the block hook.  A call that fails  *)
(* without writing anything is a stuttering step of the storage and is     *)
(* left out; a call that fails after a write is a step.                    *)
(***************************************************************************)
StorageOf(T) ==
  <<T.now, T.ProjectsMetadata, T.ProjectsDetails, T.ProjectsIssuers, T.NextProjectId,
    T.Images, T.ProjectsToUpdate, T.AuctionsInfo, T.BiddingBonds, T.ContributingBonds,
    T.EvaluationBonds, T.Contributions, T.NextBidId, T.Nonce, T.FreePlmc, T.NamedReserve,
    T.FreeFunding, T.ReservedFunding, T.FundBalance, T.Assets, T.AssetBalance>>

Call(T) ==
  /\ T.res.err = "Ok" \/ StorageOf(T) # storage
  /\ Becomes(T)

Create(inputs, limit) ==
  /\ NextProjectId < limit
  /\ \E project \in inputs : Call(DoCreate(Cur, Issuer, project))
  /\ UNCHANGED Offered

StartEvaluation ==
  /\ \E pid \in ProjectIds : Call(DoEvaluationStart(Cur, pid))
  /\ UNCHANGED Offered

EvaluationBond(evaluators, amounts) ==
  /\ \E who \in evaluators, pid \in ProjectIds, amount \in amounts :
        /\ EvaluationBonds[pid][who] < MaxEvaluationBond
        /\ Call(DoEvaluationBond(Cur, who, pid, amount))
  /\ UNCHANGED Offered

StartAuction ==
  /\ \E pid \in ProjectIds : Call(DoEnglishAuction(Cur, pid))
  /\ UNCHANGED Offered

(* a bid that passed the validity checks and the bonding and was then      *)
(* either stored or turned away by the full list (line 901)                *)
ReachedList(S, T, pid, amount, price) ==
  \/ T.res.err = "Ok"
  \/ /\ T.res.err = "BidTooLow"
     /\ PriceAndTicketValid(S.ProjectsMetadata[pid], amount, price)

RECURSIVE CountOffers(_, _)
CountOffers(O, keys) ==
  IF keys = {} THEN 0
  ELSE LET k == CHOOSE x \in keys : TRUE
       IN Len(O[k[1]][k[2]]) + CountOffers(O, keys \ {k})

Bid(bidders, amounts, prices, limit) ==
  /\ CountOffers(Offered, ProjectIds \X Accounts) < limit
  /\ \E who \in bidders, pid \in ProjectIds, amount \in amounts, price \in prices :
        LET T == DoBid(Cur, who, pid, amount, price, 1)
        IN /\ Call(T)
           /\ Offered' = IF ReachedList(Cur, T, pid, amount, price)
                         THEN [Offered EXCEPT ![pid][who] =
                                 Append(@, [price |-> price, amount |-> amount, when |-> now])]
                         ELSE Offered

RECURSIVE CountContributions(_, _)
CountContributions(C, keys) ==
  IF keys = {} THEN 0
  ELSE LET k == CHOOSE x \in keys : TRUE
       IN Len(C[k[1]][k[2]]) + CountContributions(C, keys \ {k})

TotalContributions == CountContributions(Contributions, ProjectIds \X Accounts)

Contribute(contributors, amounts) ==
  /\ \E who \in contributors, pid \in ProjectIds, amount \in amounts :
        /\ \/ TotalContributions < MaxContribs
           \/ Len(Contributions[pid][who]) = MaxContributionsPerUser
        /\ Call(DoContribute(Cur, who, pid, amount, 1))
  /\ UNCHANGED Offered

ReadyToLaunch ==
  /\ \E pid \in ProjectIds : Call(DoReadyToLaunch(Cur, pid))
  /\ UNCHANGED Offered

(* the next block begins: on_initialize(now + 1) *)
Tick ==
  /\ now < MaxBlock
  /\ \E random \in RandomValues :
       \E order \in (IF HasClearing(ProjectsToUpdate[now + 1])
                     THEN KeyOrders
                     ELSE {CHOOSE o \in KeyOrders : TRUE}) :
          Becomes(OnInitialize(Cur, now + 1, random, order))
  /\ UNCHANGED Offered

Next ==
  \/ Create(MetadataInputs, LifecycleProjects)
  \/ StartEvaluation
  \/ EvaluationBond({"alice"}, {1})
  \/ StartAuction
  \/ Bid({"alice"}, {1}, {2}, LifecycleBids)
  \/ Contribute({"bob"}, {1, 2})
  \/ ReadyToLaunch
  \/ Tick

Spec == Init /\ [][Next]_vars

(***************************************************************************)
(* The auction: the storage in the first block of the candle auction of a  *)
(* project, built from Genesis with the calls that lead there.             *)
(***************************************************************************)
AnyOrder == CHOOSE o \in KeyOrders : TRUE

RECURSIVE RunBlocks(_, _)
RunBlocks(S, until) ==
  IF S.now >= until THEN S
  ELSE RunBlocks(OnInitialize(S, S.now + 1, 0, AnyOrder), until)

(* one project: create, start_evaluation and an evaluation bond in block 1, *)
(* the evaluation ends in block 3, start_auction in block 4, the candle     *)
(* auction starts in block 6 and its first block is block 7                 *)
CandleStarted(project) ==
  LET S1 == DoCreate(Genesis, Issuer, project)
      S2 == DoEvaluationStart(S1, 0)
      S3 == DoEvaluationBond(S2, "alice", 0, 1)
      S4 == DoEnglishAuction(RunBlocks(S3, 4), 0)
  IN RunBlocks(S4, CandleFirstBlock)

InitAuction ==
  /\ Offered = NoOffers
  /\ \E project \in MetadataInputs : StateIs(CandleStarted(project))

NextAuction ==
  \/ Bid({"alice"}, {1, 2}, {1, 2, 3}, MaxBids)
  \/ Tick

SpecAuction == InitAuction /\ [][NextAuction]_vars

(***************************************************************************)
(* Two projects in their candle auctions at the same time.  Bucket         *)
(* capacity delays every transition of the second project by one block.    *)
(***************************************************************************)
TwoCandlesStarted(first, second) ==
  LET S1 == DoCreate(DoCreate(Genesis, Issuer, first), Issuer, second)
      S2 == DoEvaluationStart(DoEvaluationStart(S1, 0), 1)
      S3 == DoEvaluationBond(DoEvaluationBond(S2, "alice", 0, 1), "alice", 1, 1)
      S4 == DoEnglishAuction(RunBlocks(S3, 4), 0)
      S5 == DoEnglishAuction(RunBlocks(S4, 5), 1)
  IN RunBlocks(S5, CandleFirstBlock + 1)

InitTwo ==
  /\ Offered = NoOffers
  /\ \E first, second \in MetadataInputs :
        /\ first # second
        /\ StateIs(TwoCandlesStarted(first, second))

NextTwo ==
  \/ Bid(Users, {1}, {2}, TwoBids)
  \/ Tick

SpecTwo == InitTwo /\ [][NextTwo]_vars

(***************************************************************************)
(* The bonds: one project whose evaluation has started in block 1.  Here   *)
(* a call the currency refuses is a step too, so that its effect on the    *)
(* storage can be observed.  The second project is too dear for an         *)
(* evaluation bond of MaxEvaluationBond to reach 10% of its target.        *)
(***************************************************************************)
LedgerInputs ==
  { [total_allocation_size |-> 3, minimum_price |-> 2,
     ticket_size |-> [minimum |-> None, maximum |-> 6], hash |-> 2],
    [total_allocation_size |-> 2, minimum_price |-> 8,
     ticket_size |-> [minimum |-> 1, maximum |-> None], hash |-> 3] }

EvaluationStarted(project) == DoEvaluationStart(DoCreate(Genesis, Issuer, project), 0)

InitLedger ==
  /\ Offered = NoOffers
  /\ \E project \in LedgerInputs : StateIs(EvaluationStarted(project))

Attempt(T) ==
  /\ T.res.err \in {"Ok", "InsufficientBalance"} \/ StorageOf(T) # storage
  /\ Becomes(T)

AttemptEvaluationBond(evaluators, amounts) ==
  /\ \E who \in evaluators, amount \in amounts :
        /\ EvaluationBonds[0][who] < MaxEvaluationBond
        /\ Attempt(DoEvaluationBond(Cur, who, 0, amount))
  /\ UNCHANGED Offered

AttemptBid(bidders, amounts, prices) ==
  /\ \E who \in bidders, amount \in amounts, price \in prices :
        Attempt(DoBid(Cur, who, 0, amount, price, 1))
  /\ UNCHANGED Offered

AttemptContribute(contributors, amounts) ==
  /\ \E who \in contributors, amount \in amounts :
        Attempt(DoContribute(Cur, who, 0, amount, 1))
  /\ UNCHANGED Offered

FailedEvaluationUnbondFor(accounts, amounts) ==
  /\ \E who \in accounts, amount \in amounts :
        Attempt(DoFailedEvaluationUnbondFor(
                  Cur, [project |-> 0, account |-> who, amount |-> amount], who))
  /\ UNCHANGED Offered

VestedPlmcBidUnbondFor(bidders) ==
  /\ \E who \in bidders : Attempt(DoVestedPlmcBidUnbondFor(Cur, who, 0, who))
  /\ UNCHANGED Offered

VestedPlmcPurchaseUnbondFor(claimers) ==
  /\ \E who \in claimers : Attempt(DoVestedPlmcPurchaseUnbondFor(Cur, who, 0, who))
  /\ UNCHANGED Offered

TickUntil(last) == now < last /\ Tick

NextLedger ==
  \/ AttemptEvaluationBond({"alice"}, {1, InitPlmc + 1})
  \/ FailedEvaluationUnbondFor({"alice"}, {1, 2})
  \/ StartAuction
  \/ AttemptBid({"bob"}, {1}, {2, 6})
  \/ VestedPlmcBidUnbondFor({"bob"})
  \/ AttemptContribute({"bob"}, {1})
  \/ VestedPlmcPurchaseUnbondFor({"bob"})
  \/ TickUntil(LedgerLastBlock)

SpecLedger == InitLedger /\ [][NextLedger]_vars

(***************************************************************************)
(* The schedule of two projects, from the start of their evaluations in    *)
(* block 1 on.                                                             *)
(***************************************************************************)
TwoEvaluationsStarted(first, second) ==
  LET S1 == DoCreate(DoCreate(Genesis, Issuer, first), Issuer, second)
      S2 == DoEvaluationStart(DoEvaluationStart(S1, 0), 1)
  IN DoEvaluationBond(DoEvaluationBond(S2, "alice", 0, 1), "alice", 1, 1)

InitSchedule ==
  /\ Offered = NoOffers
  /\ \E first, second \in MetadataInputs : StateIs(TwoEvaluationsStarted(first, second))

NextSchedule ==
  \/ StartAuction
  \/ Bid(Users, {1}, {2}, TwoBids)
  \/ Tick

SpecSchedule == InitSchedule /\ [][NextSchedule]_vars

(***************************************************************************)
(* The sale: one project whose auction has been cleared with one accepted  *)
(* bid of alice for one token at the minimum price, in the block of the    *)
(* clearing.  The allocation leaves room for a full list of contributions  *)
(* and a larger one after it.                                              *)
(***************************************************************************)
SaleInputs ==
  { [total_allocation_size |-> 6, minimum_price |-> 1,
     ticket_size |-> [minimum |-> 1, maximum |-> None], hash |-> 4],
    [total_allocation_size |-> 4, minimum_price |-> 2,
     ticket_size |-> [minimum |-> None, maximum |-> 6], hash |-> 5] }

SaleStarted(project) ==
  LET S1 == DoBid(CandleStarted(project), "alice", 0, 1, project.minimum_price, 1)
  IN RunBlocks(S1, CandleFirstBlock + CandleAuctionDuration)

InitSale ==
  /\ Offered = NoOffers
  /\ \E project \in SaleInputs : StateIs(SaleStarted(project))

NextSale ==
  \/ Contribute(Users, {0, 1, 2, 3})
  \/ VestedPlmcBidUnbondFor({"alice"})
  \/ VestedPlmcPurchaseUnbondFor(Users)
  \/ ReadyToLaunch
  \/ Tick

SpecSale == InitSale /\ [][NextSale]_vars

(***************************************************************************)
(* The metadata: projects from their creation on, with and without a       *)
(* metadata hash, and edit_metadata called by every account.  Every call   *)
(* of edit_metadata is a step, whatever it returns.                        *)
(***************************************************************************)
HashlessInputs ==
  { [total_allocation_size |-> 2, minimum_price |-> 1,
     ticket_size |-> [minimum |-> 1, maximum |-> None], hash |-> None] }

Hashes == {1, 3}

EditMetadata(callers, hashes) ==
  /\ \E who \in callers, pid \in ProjectIds, hash \in hashes :
        Becomes(DoEditMetadata(Cur, who, pid, hash))
  /\ UNCHANGED Offered

NextMetadata ==
  \/ Create(MetadataInputs \cup HashlessInputs, MaxProjects)
  \/ EditMetadata({Issuer, "alice"}, Hashes)
  \/ StartEvaluation
  \/ StartAuction
  \/ TickUntil(MetadataLastBlock)

SpecMetadata == Init /\ [][NextMetadata]_vars

(***************************************************************************)
(* The clearing-price scenario: one project with an allocation of 50,000   *)
(* or 60,000 tokens in the first block of its candle auction, accounts     *)
(* endowed with ScenarioFunds, and the bids 10,000 at 15, 20,000 at 20 and *)
(* 20,000 at 10.                                                           *)
(***************************************************************************)
ScenarioInputs ==
  { [total_allocation_size |-> 50000, minimum_price |-> 10,
     ticket_size |-> [minimum |-> 1, maximum |-> None], hash |-> 6],
    [total_allocation_size |-> 60000, minimum_price |-> 10,
     ticket_size |-> [minimum |-> 1, maximum |-> None], hash |-> 7] }

ScenarioBids == { <<10000, 15>>, <<20000, 20>>, <<20000, 10>> }

ScenarioGenesis ==
  [Genesis EXCEPT !.FreePlmc = [a \in Accounts |-> ScenarioFunds],
                  !.FreeFunding = [a \in Accounts |-> ScenarioFunds]]

ScenarioStarted(project) ==
  LET S1 == DoCreate(ScenarioGenesis, Issuer, project)
      S2 == DoEvaluationStart(S1, 0)
      S3 == DoEvaluationBond(S2, "alice", 0, TenPercent(S2.ProjectsDetails[0].fundraising_target))
      S4 == DoEnglishAuction(RunBlocks(S3, 4), 0)
  IN RunBlocks(S4, CandleFirstBlock)

InitScenario ==
  /\ Offered = NoOffers
  /\ \E project \in ScenarioInputs : StateIs(ScenarioStarted(project))

ScenarioBid ==
  /\ CountOffers(Offered, ProjectIds \X Accounts) < Cardinality(ScenarioBids)
  /\ \E who \in Users, bid \in ScenarioBids :
        LET T == DoBid(Cur, who, 0, bid[1], bid[2], 1)
        IN /\ Call(T)
           /\ Offered' = IF ReachedList(Cur, T, 0, bid[1], bid[2])
                         THEN [Offered EXCEPT ![0][who] =
                                 Append(@, [price |-> bid[2], amount |-> bid[1], when |-> now])]
                         ELSE Offered

NextScenario ==
  \/ ScenarioBid
  \/ Tick

SpecScenario == InitScenario /\ [][NextScenario]_vars

(***************************************************************************)
(* The claims of contribution tokens: one project from the first block of  *)
(* its candle auction on, with bids that a clearing accepts, accepts in    *)
(* part or rejects, and the minting of the tokens of the bids.             *)
(***************************************************************************)
VestedContributionTokenBidMintFor(bidders) ==
  /\ \E who \in bidders, pid \in ProjectIds :
        Call(DoVestedContributionTokenBidMintFor(Cur, who, pid, who))
  /\ UNCHANGED Offered

NextMint ==
  \/ Bid({"alice"}, {1, 2}, {2, 3}, MaxBids)
  \/ VestedContributionTokenBidMintFor({"alice"})
  \/ Tick

SpecMint == InitAuction /\ [][NextMint]_vars

(***************************************************************************)
(* The unattended project: one project whose evaluation has started in     *)
(* block 1, with no call after that but evaluation bonds, bids and         *)
(* contributions.  The block hook runs at every block: a new block always  *)
(* begins.                                                                 *)
(***************************************************************************)
NextUnattended ==
  \/ EvaluationBond({"alice"}, {1})
  \/ Bid({"alice"}, {1}, {2}, LifecycleBids)
  \/ Contribute({"bob"}, {1, 2})
  \/ Tick

SpecUnattended == InitLedger /\ [][NextUnattended]_vars /\ WF_vars(Tick)

(***************************************************************************)
(* The draw of the cutoff block: one project whose candle auction is       *)
(* started in block 6 by a pallet configured with a candle duration of     *)
(* 1 .. MaxCandleDuration blocks, with any nonce left by earlier draws,    *)
(* and a randomness source that returns any of 0 .. MaxRandom.             *)
(***************************************************************************)
CandleDurations == 1 .. MaxCandleDuration

DrawValues == 0 .. MaxRandom

CandleStartedWith(project, candle_auction_duration, nonce) ==
  LET S1 == DoCreate(Genesis, Issuer, project)
      S2 == DoEvaluationStart(S1, 0)
      S3 == DoEvaluationBond(S2, "alice", 0, 1)
      S4 == DoEnglishAuction(RunBlocks(S3, 4), 0)
      S5 == RunBlocks(S4, 5)
      S6 == [S5 EXCEPT !.now = 6, !.ProjectsToUpdate[6] = <<>>, !.Nonce = nonce]
  IN DoCandleAuction(S6, 0, candle_auction_duration)

InitDraw ==
  /\ Offered = NoOffers
  /\ \E project \in MetadataInputs, d \in CandleDurations, nonce \in 0 .. MaxNonce :
        StateIs(CandleStartedWith(project, d, nonce))

(* the next block begins, with the randomness source returning any value *)
TickDrawing(randoms) ==
  /\ now < MaxBlock
  /\ \E random \in randoms : Becomes(OnInitialize(Cur, now + 1, random, AnyOrder))
  /\ UNCHANGED Offered

NextDraw ==
  \/ Bid({"alice"}, {1}, {2}, LifecycleBids)
  \/ TickDrawing(DrawValues)

SpecDraw == InitDraw /\ [][NextDraw]_vars

(***************************************************************************)
(* The funding reserve: bids with multiplier 2 bond half their ticket in   *)
(* PLMC, so that the funding currency of the bidder runs short before the  *)
(* PLMC does.                                                              *)
(***************************************************************************)
LeveragedBid(bidders, amounts, prices, limit) ==
  /\ CountOffers(Offered, ProjectIds \X Accounts) < limit
  /\ \E who \in bidders, pid \in ProjectIds, amount \in amounts, price \in prices :
        LET T == DoBid(Cur, who, pid, amount, price, 2)
        IN /\ Call(T)
           /\ Offered' = IF ReachedList(Cur, T, pid, amount, price)
                         THEN [Offered EXCEPT ![pid][who] =
                                 Append(@, [price |-> price, amount |-> amount, when |-> now])]
                         ELSE Offered

NextReserve ==
  \/ LeveragedBid({"alice"}, {1, 3}, {1, 2, 3}, MaxBids)
  \/ Tick

SpecReserve == InitAuction /\ [][NextReserve]_vars

(***************************************************************************)
(* The settlement cursor of pallets/funding/src/types.rs: ProjectDetails   *)
(* there has the fields status and cleanup, and ProjectStatus has the      *)
(* values FundingFailed, AwaitingProjectDecision and FundingSuccessful     *)
(* where the statuses above have FundingEnded.  Two projects from their    *)
(* creation on; every other part of the storage stays as at genesis.       *)
(***************************************************************************)
ProjectStatus ==
  {"Application", "EvaluationRound", "EvaluationFailed", "AuctionInitializePeriod",
   "English", "Candle", "CommunityRound", "RemainderRound", "FundingFailed",
   "AwaitingProjectDecision", "FundingSuccessful", "ReadyToLaunch"}

(* Cleaner::NotReady, and the Err(()) of the conversion *)
NotReady == [tag |-> "NotReady", state |-> "-"]
NoCleaner == [tag |-> "Err", state |-> "-"]

(* a conversion that also takes a project awaiting its decision as failed *)
CleanerTryFromUndecided(value) ==
  IF value = "FundingSuccessful" THEN [tag |-> "Success", state |-> "Initialized"]
  ELSE IF value \in {"FundingFailed", "EvaluationFailed", "AwaitingProjectDecision"}
  THEN [tag |-> "Failure", state |-> "Initialized"]
  ELSE NoCleaner

(* impl TryFrom<ProjectStatus> for Cleaner *)
CleanerTryFrom(value) ==
  IF value = "FundingSuccessful" THEN [tag |-> "Success", state |-> "Initialized"]
  ELSE IF value \in {"FundingFailed", "EvaluationFailed"}
  THEN [tag |-> "Failure", state |-> "Initialized"]
  ELSE NoCleaner

(* the statuses a project can take next; the three concluded statuses have *)
(* none                                                                    *)
NextStatuses(status) ==
  CASE status = "Application" -> {"EvaluationRound"}
    [] status = "EvaluationRound" -> {"EvaluationFailed", "AuctionInitializePeriod"}
    [] status = "AuctionInitializePeriod" -> {"English"}
    [] status = "English" -> {"Candle"}
    [] status = "Candle" -> {"CommunityRound", "FundingFailed"}
    [] status = "CommunityRound" -> {"RemainderRound", "FundingSuccessful"}
    [] status = "RemainderRound" ->
         {"FundingSuccessful", "FundingFailed", "AwaitingProjectDecision"}
    [] status = "AwaitingProjectDecision" -> {"FundingSuccessful", "FundingFailed"}
    [] OTHER -> {}

InitCleaner ==
  /\ Offered = NoOffers
  /\ StateIs([Genesis EXCEPT
                !.ProjectsDetails =
                   [p \in ProjectIds |->
                      [exists |-> TRUE, status |-> "Application", cleanup |-> NotReady]],
                !.NextProjectId = MaxProjects])

(* a phase transition of the project *)
Proceed ==
  /\ \E pid \in ProjectIds :
       \E status \in NextStatuses(ProjectsDetails[pid].status) :
         ProjectsDetails' = [ProjectsDetails EXCEPT ![pid].status = status]
  /\ UNCHANGED <<now, ProjectsMetadata, ProjectsIssuers, NextProjectId, Images,
                 ProjectsToUpdate, AuctionsInfo, BiddingBonds, ContributingBonds,
                 EvaluationBonds, Contributions, NextBidId, Nonce, FreePlmc,
                 NamedReserve, FreeFunding, ReservedFunding, FundBalance, Assets,
                 AssetBalance, res, Offered>>

(* the settlement of a project is started: its cursor is the conversion of *)
(* its status, and nothing is written when the conversion fails            *)
StartSettlement ==
  /\ \E pid \in ProjectIds :
       LET cleaner == CleanerTryFrom(ProjectsDetails[pid].status)
       IN /\ cleaner # NoCleaner
          /\ ProjectsDetails[pid].cleanup = NotReady
          /\ ProjectsDetails' = [ProjectsDetails EXCEPT ![pid].cleanup = cleaner]
  /\ UNCHANGED <<now, ProjectsMetadata, ProjectsIssuers, NextProjectId, Images,
                 ProjectsToUpdate, AuctionsInfo, BiddingBonds, ContributingBonds,
                 EvaluationBonds, Contributions, NextBidId, Nonce, FreePlmc,
                 NamedReserve, FreeFunding, ReservedFunding, FundBalance, Assets,
                 AssetBalance, res, Offered>>

NextCleaner == Proceed \/ StartSettlement

SpecCleaner == InitCleaner /\ [][NextCleaner]_vars

(***************************************************************************)
(* Claims                                                                  *)
(***************************************************************************)
StatusOf(pid) == ProjectsDetails[pid].project_status

Rank(status) ==
  CASE status = "Application" -> 0
    [] status = "EvaluationRound" -> 1
    [] status = "EvaluationFailed" -> 2
    [] status = "AuctionInitializePeriod" -> 2
    [] status = "English" -> 3
    [] status = "Candle" -> 4
    [] status = "CommunityRound" -> 5
    [] status = "RemainderRound" -> 6
    [] status = "FundingEnded" -> 7
    [] status = "ReadyToLaunch" -> 8

(* b comes later than a in the order Application -> EvaluationRound ->     *)
(* {EvaluationFailed | AuctionInitializePeriod -> English -> Candle ->     *)
(* CommunityRound -> RemainderRound} -> FundingEnded -> ReadyToLaunch      *)
Forward(a, b) ==
  /\ Rank(a) < Rank(b)
  /\ a = "EvaluationFailed" => b \in {"FundingEnded", "ReadyToLaunch"}

(* C1: in every step, a project whose status changes moves to a status     *)
(* that comes later in the forward order; no step moves a project to an    *)
(* earlier status.                                                         *)
C1_StatusOnlyMovesForward ==
  [][\A pid \in ProjectIds :
       (ProjectsDetails[pid].exists /\ StatusOf(pid)' # StatusOf(pid))
         => Forward(StatusOf(pid), StatusOf(pid)')]_vars

(***************************************************************************)
(* Clearing                                                                *)
(***************************************************************************)
ClearedStatuses == {"CommunityRound", "RemainderRound", "FundingEnded", "ReadyToLaunch"}

Cleared(pid) == ProjectsDetails[pid].exists /\ StatusOf(pid) \in ClearedStatuses

(* the step in which the auction of pid is cleared *)
ClearingStep(pid) ==
  /\ ProjectsDetails[pid].exists
  /\ StatusOf(pid) = "Candle"
  /\ StatusOf(pid)' = "CommunityRound"

AcceptedAmount(bid) ==
  CASE bid.status.tag = "Accepted" -> bid.amount
    [] bid.status.tag = "PartiallyAccepted" -> bid.status.amount
    [] OTHER -> 0

RECURSIVE SumAccepted(_)
SumAccepted(bids) ==
  IF bids = <<>> THEN 0 ELSE AcceptedAmount(Head(bids)) + SumAccepted(Tail(bids))

(* all bids stored for the project, bidder after bidder *)
RECURSIVE BidsOf(_, _, _)
BidsOf(A, pid, accts) ==
  IF accts = {} THEN <<>>
  ELSE LET a == CHOOSE x \in accts : TRUE
       IN A[pid][a] \o BidsOf(A, pid, accts \ {a})

AcceptedSum(A, pid) == SumAccepted(BidsOf(A, pid, Accounts))

(* C2: once the auction of a project is cleared, the accepted amounts of   *)
(* its bids (whole amount of an Accepted bid, partial amount of a          *)
(* PartiallyAccepted one) add up to at most its total_allocation_size.     *)
C2_AcceptedWithinAllocation ==
  \A pid \in ProjectIds :
    Cleared(pid) =>
      AcceptedSum(AuctionsInfo, pid) <= ProjectsMetadata[pid].total_allocation_size

(* C3: the step that clears a project leaves remaining_contribution_tokens *)
(* at total_allocation_size minus the accepted amounts of its bids, and    *)
(* that difference is not negative.                                        *)
C3_RemainingIsAllocationMinusAccepted ==
  [][\A pid \in ProjectIds :
       ClearingStep(pid) =>
         LET left == ProjectsMetadata[pid].total_allocation_size
                       - AcceptedSum(AuctionsInfo', pid)
         IN /\ left >= 0
            /\ ProjectsDetails[pid].remaining_contribution_tokens' = left]_vars

PreCutoff(pid, bid) ==
  bid.when <= ProjectsDetails[pid].phase_transition_points.random_candle_ending

Winning(bid) == bid.status.tag \in {"Accepted", "PartiallyAccepted"}

(* turned away, wholly or in part, for lack of tokens *)
ShortOfTokens(bid) ==
  \/ bid.status.tag = "PartiallyAccepted"
  \/ bid.status.tag = "Rejected" /\ bid.status.reason = "NoTokensLeft"

(* b ranks below a: lower price, or the same price and submitted later *)
RanksBelow(b, a) ==
  \/ b.price < a.price
  \/ b.price = a.price /\ b.bid_id > a.bid_id

(* C4: after clearing, no bid made by the cutoff is short of tokens while  *)
(* a bid of the same project that ranks below it (lower price, or equal    *)
(* price and later submission) and was made by the cutoff is winning.      *)
C4_PriceDescendingAllocation ==
  \A pid \in ProjectIds :
    Cleared(pid) =>
      LET bids == BidsOf(AuctionsInfo, pid, Accounts)
      IN \A i, j \in 1 .. Len(bids) :
           (/\ PreCutoff(pid, bids[i]) /\ PreCutoff(pid, bids[j])
            /\ ShortOfTokens(bids[i])
            /\ RanksBelow(bids[j], bids[i]))
             => ~Winning(bids[j])

(* the storage without the bids placed on other projects than pid *)
EraseOtherBids(S, pid) ==
  [S EXCEPT !.AuctionsInfo =
      [p \in ProjectIds |-> IF p = pid THEN S.AuctionsInfo[p]
                            ELSE [a \in Accounts |-> <<>>]]]

(* the next block's bucket holds the clearing of pid *)
ClearingDue(pid) ==
  \E i \in 1 .. Len(ProjectsToUpdate[now + 1]) :
    ProjectsToUpdate[now + 1][i] = <<pid, "CommunityFundingStart">>

(* C5: the block that runs the clearing of project P leaves the bids of    *)
(* every other project as they were, and P's clearing price, remaining     *)
(* tokens, status and bid statuses are those of a clearing of P in a       *)
(* storage that holds no bid of another project.                           *)
C5_ClearingReadsOnlyOwnBids ==
  [][\A P \in ProjectIds :
       (now' = now + 1 /\ ClearingDue(P)) =>
         /\ \A Q \in ProjectIds \ {P} : AuctionsInfo'[Q] = AuctionsInfo[Q]
         /\ \E random \in RandomValues, order \in KeyOrders :
              LET alone == DoCommunityFunding(
                             EraseOtherBids([Cur EXCEPT !.now = now + 1], P),
                             P, random, order)
              IN /\ ProjectsDetails'[P] = alone.ProjectsDetails[P]
                 /\ AuctionsInfo'[P] = alone.AuctionsInfo[P]]_vars

(***************************************************************************)
(* The clearing price                                                      *)
(***************************************************************************)
BeforeCommunity ==
  {"Application", "EvaluationRound", "EvaluationFailed", "AuctionInitializePeriod",
   "English", "Candle"}

PriceOf(pid) == ProjectsDetails[pid].weighted_average_price

PriceUnsetBeforeCommunity ==
  \A pid \in ProjectIds :
    (ProjectsDetails[pid].exists /\ StatusOf(pid) \in BeforeCommunity)
      => PriceOf(pid) = None

(* C6: weighted_average_price is None in every status before               *)
(* CommunityRound; a step sets it exactly when it moves the project from   *)
(* Candle to CommunityRound; once set, no step changes it.                 *)
C6_PriceSetOnceAtClearing ==
  /\ []PriceUnsetBeforeCommunity
  /\ [][\A pid \in ProjectIds :
          ProjectsDetails[pid].exists =>
            /\ ClearingStep(pid) <=> (PriceOf(pid) = None /\ PriceOf(pid)' # None)
            /\ PriceOf(pid) # None => PriceOf(pid)' = PriceOf(pid)]_vars

(* the project was launched at the price set by the clearing, after a      *)
(* contribution was made at that price                                     *)
C6_Witness ==
  /\ ProjectsDetails[0].exists
  /\ StatusOf(0) = "ReadyToLaunch"
  /\ PriceOf(0) # None
  /\ Len(Contributions[0]["bob"]) > 0

(***************************************************************************)
(* The bid list of one bidder                                              *)
(***************************************************************************)
(* best holds the bids offered so far, best first: higher price first, and *)
(* among equal prices the earlier offer first                              *)
StoredIsBestOffers(A, O, pid, who) ==
  LET stored == A[pid][who]
      best == StableSort(O[pid][who], "ReversePrice")
      n == Min(Len(best), MaximumBidsPerUser)
  IN /\ Len(stored) = n
     /\ \A i \in 1 .. n :
          /\ stored[i].price = best[i].price
          /\ stored[i].amount = best[i].amount
          /\ stored[i].when = best[i].when

(* a bid call by who on pid that reached the full list of the bidder *)
BidOnFullList(pid, who) ==
  /\ res'.op = "bid" /\ res'.pid = pid /\ res'.who = who
  /\ Offered'[pid][who] # Offered[pid][who]
  /\ Len(AuctionsInfo[pid][who]) = MaximumBidsPerUser

HasBid(list, bid_id) == \E i \in 1 .. Len(list) : list[i].bid_id = bid_id

(* C8: the list stored for a bidder on a project is, best first, the       *)
(* MaximumBidsPerUser best bids among the valid bids the bidder has        *)
(* offered; a bid on a full list takes the place of the lowest entry if    *)
(* and only if its price is strictly higher than that entry's price, and   *)
(* is rejected with BidTooLow otherwise, the list staying as it was.       *)
C8_StoredListIsBestBids ==
  /\ [](\A pid \in ProjectIds, who \in Accounts :
          StoredIsBestOffers(AuctionsInfo, Offered, pid, who))
  /\ [][\A pid \in ProjectIds, who \in Accounts :
          BidOnFullList(pid, who) =>
            LET offers == Offered'[pid][who]
                new == offers[Len(offers)]
                lowest == AuctionsInfo[pid][who][MaximumBidsPerUser]
            IN IF new.price > lowest.price
               THEN /\ res'.err = "Ok"
                    /\ HasBid(AuctionsInfo'[pid][who], NextBidId)
                    /\ ~HasBid(AuctionsInfo'[pid][who], lowest.bid_id)
               ELSE /\ res'.err = "BidTooLow"
                    /\ AuctionsInfo'[pid][who] = AuctionsInfo[pid][who]]_vars

(* alice has offered four bids on project 0: two filled the list, one took *)
(* the place of the lowest entry and one was turned away                   *)
C8_Witness ==
  /\ Len(Offered[0]["alice"]) = 4
  /\ NextBidId = 3
  /\ Len(AuctionsInfo[0]["alice"]) = MaximumBidsPerUser

(***************************************************************************)
(* Bonds and reserves of a bidder                                          *)
(***************************************************************************)
BondOf(bonds, pid, who) == IF bonds[pid][who] = None THEN 0 ELSE bonds[pid][who]

(* the bond amounts of the bids of a list *)
RECURSIVE SumPlmc(_)
SumPlmc(list) ==
  IF list = <<>> THEN 0
  ELSE Head(list).plmc_vesting_period.amount + SumPlmc(Tail(list))

(* C7: a bid turned away with BidTooLow by the full list of its bidder     *)
(* leaves the bidder's Bidding bond, PLMC named reserve, funding-currency  *)
(* reserve and stored bid list as they were before the call.               *)
C7_RejectedBidChangesNothing ==
  [][\A pid \in ProjectIds, who \in Accounts :
       (BidOnFullList(pid, who) /\ res'.err = "BidTooLow") =>
         /\ BiddingBonds'[pid][who] = BiddingBonds[pid][who]
         /\ NamedReserve'[who]["Bidding"] = NamedReserve[who]["Bidding"]
         /\ ReservedFunding'[who] = ReservedFunding[who]
         /\ AuctionsInfo'[pid][who] = AuctionsInfo[pid][who]]_vars

(* the bid of the list with this id *)
BidWithId(list, bid_id) == list[BidPosition(list, bid_id)]

(* C9: a bid that takes the place of the lowest entry of a full list, made *)
(* when the bond is the sum of the bond amounts of the stored bids, frees  *)
(* the funding-currency reserve of the evicted bid and lowers the Bidding  *)
(* bond and the PLMC named reserve by the evicted bid's bond amount: after *)
(* the call the bond is again the sum of the bond amounts of the bids      *)
(* stored, and the named reserve has moved by as much as the bond.         *)
C9_EvictionReleasesReserveAndBond ==
  [][\A pid \in ProjectIds, who \in Accounts :
       (/\ BidOnFullList(pid, who) /\ res'.err = "Ok"
        /\ BondOf(BiddingBonds, pid, who) = SumPlmc(AuctionsInfo[pid][who])) =>
         LET lowest == AuctionsInfo[pid][who][MaximumBidsPerUser]
             new == BidWithId(AuctionsInfo'[pid][who], NextBidId)
         IN /\ ReservedFunding'[who]
                 = ReservedFunding[who] - lowest.ticket_size + new.ticket_size
            /\ BondOf(BiddingBonds', pid, who) = SumPlmc(AuctionsInfo'[pid][who])
            /\ NamedReserve'[who]["Bidding"] - NamedReserve[who]["Bidding"]
                 = BondOf(BiddingBonds', pid, who) - BondOf(BiddingBonds, pid, who)]_vars

(* the bond amounts of the contributions of a list *)
RECURSIVE SumContributionPlmc(_)
SumContributionPlmc(list) ==
  IF list = <<>> THEN 0
  ELSE Head(list).plmc_vesting.amount + SumContributionPlmc(Tail(list))

(* C10: a successful bid, and a successful contribution that evicts        *)
(* nothing, bond only the shortfall: the bond of the account for the       *)
(* project grows by max(0, required - unused), where required is the bond  *)
(* amount of the new bid or contribution and unused is the bond held       *)
(* before the call minus the bond amounts of the bids or contributions     *)
(* stored before the call.  (Neither call releases bond in these cases, so *)
(* the growth of the bond is what the call newly bonds.)                   *)
C10_OnlyShortfallIsBonded ==
  [][\A pid \in ProjectIds, who \in Accounts :
       /\ (res'.op = "bid" /\ res'.pid = pid /\ res'.who = who /\ res'.err = "Ok") =>
            LET required == BidWithId(AuctionsInfo'[pid][who], NextBidId)
                              .plmc_vesting_period.amount
                unused == BondOf(BiddingBonds, pid, who) - SumPlmc(AuctionsInfo[pid][who])
            IN BondOf(BiddingBonds', pid, who) - BondOf(BiddingBonds, pid, who)
                 = Max(0, required - unused)
       /\ (/\ res'.op = "contribute" /\ res'.pid = pid /\ res'.who = who
           /\ res'.err = "Ok"
           /\ Len(Contributions'[pid][who]) = Len(Contributions[pid][who]) + 1) =>
            LET list == Contributions'[pid][who]
                required == SumContributionPlmc(list)
                              - SumContributionPlmc(Contributions[pid][who])
                unused == BondOf(ContributingBonds, pid, who)
                            - SumContributionPlmc(Contributions[pid][who])
            IN BondOf(ContributingBonds', pid, who) - BondOf(ContributingBonds, pid, who)
                 = Max(0, required - unused)]_vars

(***************************************************************************)
(* Error handling                                                          *)
(***************************************************************************)
(* the ledger: every storage item but the clock, the schedule and the      *)
(* nonce of the random block                                               *)
Ledger ==
  <<ProjectsMetadata, ProjectsDetails, ProjectsIssuers, NextProjectId, Images,
    AuctionsInfo, BiddingBonds, ContributingBonds, EvaluationBonds, Contributions,
    NextBidId, FreePlmc, NamedReserve, FreeFunding, ReservedFunding,
    FundBalance, Assets, AssetBalance>>

(* the step ran an operation that returned an error *)
Failed == res' # res /\ res'.err # "Ok"

(* C11: a step whose operation returned an error leaves the ledger as it   *)
(* was: end_funding failing on the asset creation leaves the status,       *)
(* community_funding failing with no accepted bid leaves the bid statuses, *)
(* contribute failing with ContributionTooLow leaves the Contributing bond *)
(* and the reserve                                                         *)
C11_FailedOperationChangesNothing ==
  [][Failed => Ledger' = Ledger]_vars

(* the statuses from which each phase function may move a project on *)
Predecessors(op) ==
  CASE op = "evaluation_start" -> {"Application"}
    [] op = "evaluation_end" -> {"EvaluationRound"}
    [] op = "english_auction" -> {"AuctionInitializePeriod"}
    [] op = "candle_auction" -> {"English"}
    [] op = "community_funding" -> {"Candle"}
    [] op = "remainder_funding" -> {"CommunityRound"}
    [] op = "end_funding" -> {"CommunityRound", "RemainderRound"}
    [] op = "ready_to_launch" -> {"FundingEnded"}
    [] OTHER -> {}

PhaseOperations ==
  {"evaluation_start", "evaluation_end", "english_auction", "candle_auction",
   "community_funding", "remainder_funding", "end_funding", "ready_to_launch"}

(* C12: a step that runs a phase function on a project whose status is not *)
(* the status that function expects returns an error and changes neither   *)
(* the status nor the transition points of the project                     *)
C12_WrongPhaseIsRejected ==
  [][\A pid \in ProjectIds :
       ( /\ res' # res
         /\ res'.pid = pid
         /\ res'.op \in PhaseOperations
         /\ ProjectsDetails[pid].exists
         /\ StatusOf(pid) \notin Predecessors(res'.op) )
       => /\ res'.err # "Ok"
          /\ StatusOf(pid)' = StatusOf(pid)
          /\ ProjectsDetails'[pid].phase_transition_points
               = ProjectsDetails[pid].phase_transition_points]_vars

(* the errors of the status checks of the phase functions *)
WrongPhaseErrors ==
  {"ProjectNotInApplicationRound", "ProjectNotInEvaluationRound",
   "ProjectNotInAuctionInitializePeriodRound", "ProjectNotInEnglishAuctionRound",
   "ProjectNotInCandleAuctionRound", "ProjectNotInCommunityRound",
   "ProjectNotInFundingEndedRound"}

UpdateTypes ==
  {"EvaluationEnd", "EnglishAuctionStart", "CandleAuctionStart",
   "CommunityFundingStart", "RemainderFundingStart", "FundingEnd"}

(* T is the storage after a first call, U after the same call made on T *)
AppliedOnce(T, U) ==
  T.res.err = "Ok" =>
    /\ U.res.err \in WrongPhaseErrors
    /\ StorageOf(U) = StorageOf(T)

(* C13: in every reachable state, a phase function that succeeds for a     *)
(* project and is called again in the same block fails the second time     *)
(* with a wrong-phase error and leaves the storage of the first call       *)
(* (status, transition points, schedule, clearing price, nonce)            *)
C13_SecondCallChangesNothing ==
  \A pid \in ProjectIds :
    /\ AppliedOnce(DoEvaluationStart(Cur, pid),
                   DoEvaluationStart(DoEvaluationStart(Cur, pid), pid))
    /\ AppliedOnce(DoReadyToLaunch(Cur, pid),
                   DoReadyToLaunch(DoReadyToLaunch(Cur, pid), pid))
    /\ \A update_type \in UpdateTypes, random \in RandomValues, order \in KeyOrders :
         LET entry == <<pid, update_type>>
             T == Dispatch(Cur, entry, random, order)
         IN AppliedOnce(T, Dispatch(T, entry, random, order))

(***************************************************************************)
(* Bonds                                                                   *)
(***************************************************************************)
Bonds == <<EvaluationBonds, BiddingBonds, ContributingBonds>>

(* C14: a step in which the currency refused the reservation of a bond     *)
(* (evaluation, bidding or contributing) ends with InsufficientBalance and *)
(* leaves every stored bond, the named reserves and the free balances as   *)
(* they were                                                               *)
C14_RefusedReservationLeavesBond ==
  [][(res' # res /\ res'.err = "InsufficientBalance")
       => /\ Bonds' = Bonds
          /\ NamedReserve' = NamedReserve
          /\ FreePlmc' = FreePlmc]_vars

(* a contribution was refused by the currency while the contributor holds  *)
(* a Contributing bond and free balance too small for the new one          *)
C14_Witness ==
  /\ res = [op |-> "contribute", pid |-> 0, who |-> "bob", err |-> "InsufficientBalance"]
  /\ ContributingBonds[0]["bob"] > 0
  /\ FreePlmc["bob"] < ProjectsDetails[0].weighted_average_price

(* C15: in every reachable state, the release of an evaluation bond of a   *)
(* failed project with an amount above the stored bond returns an error    *)
(* and changes nothing                                                     *)
C15_OverReleaseIsRefused ==
  \A who \in Users, amount \in 1 .. (MaxEvaluationBond + 1) :
    LET T == DoFailedEvaluationUnbondFor(
               Cur, [project |-> 0, account |-> who, amount |-> amount], who)
    IN ( /\ ProjectsDetails[0].project_status = "EvaluationFailed"
         /\ EvaluationBonds[0][who] # None
         /\ amount > EvaluationBonds[0][who] )
       => /\ T.res.err # "Ok"
          /\ StorageOf(T) = storage

(* the bond class a release call works on *)
ReleasedClass(op) ==
  CASE op = "failed_evaluation_unbond_for" -> "Evaluation"
    [] op = "vested_plmc_bid_unbond_for" -> "Bidding"
    [] op = "vested_plmc_purchase_unbond_for" -> "Contributing"
    [] OTHER -> "None"

BondsOfClass(class) ==
  CASE class = "Evaluation" -> EvaluationBonds
    [] class = "Bidding" -> BiddingBonds
    [] class = "Contributing" -> ContributingBonds

(* C16: a successful release gives back to the free balance what it takes  *)
(* from the named reserve and lowers the stored bond by the same amount,   *)
(* so that a bond released in full leaves no bond amount behind            *)
C16_ReleaseUndoesBond ==
  [][\A who \in Users, class \in BondClasses :
       ( /\ res' # res
         /\ res'.err = "Ok"
         /\ res'.who = who
         /\ ReleasedClass(res'.op) = class )
       => LET freed == NamedReserve[who][class] - NamedReserve'[who][class]
          IN /\ FreePlmc'[who] = FreePlmc[who] + freed
             /\ BondOf(BondsOfClass(class), 0, who)'
                  = BondOf(BondsOfClass(class), 0, who) - freed]_vars

(***************************************************************************)
(* The schedule                                                            *)
(***************************************************************************)
(* store is store0 with entry appended to bucket t *)
AppendedAt(store0, store, t, entry) ==
  /\ store[t] = Append(store0[t], entry)
  /\ \A u \in Blocks \ {t} : store[u] = store0[u]

EntriesOf(bucket, pid, own) ==
  LET Test(entry) == (entry[1] = pid) = own
  IN SelectSeq(bucket, Test)

RECURSIVE CountEntries(_, _, _)
CountEntries(store, pid, b) ==
  IF b > Horizon THEN 0
  ELSE Len(EntriesOf(store[b], pid, TRUE)) + CountEntries(store, pid, b + 1)

(* the manual start of the english auction inside the initialize period *)
ManualStart(pid) ==
  /\ res' # res
  /\ res' = [op |-> "english_auction", pid |-> pid, who |-> "-", err |-> "Ok"]
  /\ now' = now
  /\ now <= ProjectsDetails[pid].phase_transition_points.auction_initialize_period.end

OperationOf(update_type) ==
  CASE update_type = "EvaluationEnd" -> "evaluation_end"
    [] update_type = "EnglishAuctionStart" -> "english_auction"
    [] update_type = "CandleAuctionStart" -> "candle_auction"
    [] update_type = "CommunityFundingStart" -> "community_funding"
    [] update_type = "RemainderFundingStart" -> "remainder_funding"
    [] update_type = "FundingEnd" -> "end_funding"

IsPrefix(s, t) == Len(s) <= Len(t) /\ SubSeq(t, 1, Len(s)) = s

(* the storage after the next block's hook has run the given bucket *)
NextBlockWith(bucket, random, order) ==
  OnInitialize([Cur EXCEPT !.ProjectsToUpdate[now + 1] = bucket], now + 1, random, order)

(* what an entry of project q can read or write, the result included *)
EffectOn(T, q) ==
  <<T.res, T.ProjectsDetails[q], T.ProjectsMetadata[q], T.AuctionsInfo[q],
    T.ProjectsToUpdate, T.BiddingBonds, T.ContributingBonds, T.EvaluationBonds,
    T.Contributions, T.NextBidId, T.FreePlmc, T.NamedReserve, T.FreeFunding,
    T.ReservedFunding, T.FundBalance, T.Assets, T.AssetBalance>>

C20_SoldOutEndsFunding ==
  [][\A pid \in ProjectIds :
       LET info == ProjectsDetails[pid]
       IN /\ ( /\ res' # res
               /\ res' = [op |-> "contribute", pid |-> pid, who |-> res'.who, err |-> "Ok"]
               /\ info.remaining_contribution_tokens > 0
               /\ ProjectsDetails'[pid].remaining_contribution_tokens = 0 )
             => \E b \in (now + 1) .. Horizon :
                  \E i \in 1 .. Len(ProjectsToUpdate'[b]) :
                    ProjectsToUpdate'[b][i] = <<pid, "FundingEnd">>
          /\ ( /\ now' = now + 1
               /\ info.exists
               /\ info.project_status \in {"CommunityRound", "RemainderRound"}
               /\ info.remaining_contribution_tokens = 0
               /\ \E i \in 1 .. Len(ProjectsToUpdate[now + 1]) :
                    ProjectsToUpdate[now + 1][i] = <<pid, "FundingEnd">> )
             => StatusOf(pid)' = "FundingEnded"]_vars

(***************************************************************************)
(* Contributions                                                           *)
(***************************************************************************)
(* what the fund account pays back for the entry that a full list drops *)
EvictedRefund(pid, who) ==
  IF Len(Contributions[pid][who]) = MaxContributionsPerUser
  THEN Contributions[pid][who][MaxContributionsPerUser].contribution_amount
  ELSE 0

(* C21: in every reachable state a contribute(who, pid, token_amount) that *)
(* succeeds buys b = min(token_amount, remaining_contribution_tokens): the *)
(* remaining tokens fall by b and b times the clearing price passes from   *)
(* the contributor to the fund account (less the refund of an entry the    *)
(* full list drops); with no clearing price, or outside CommunityRound and *)
(* RemainderRound, the call fails and writes nothing                       *)
C21_ContributeBuysMin ==
  \A pid \in ProjectIds, who \in Accounts, token_amount \in 0 .. MaxContribs :
    LET T == DoContribute(Cur, who, pid, token_amount, 1)
        info == ProjectsDetails[pid]
    IN /\ T.res.err = "Ok" =>
            LET b == Min(token_amount, info.remaining_contribution_tokens)
                paid == b * info.weighted_average_price
                refund == EvictedRefund(pid, who)
            IN /\ T.ProjectsDetails[pid].remaining_contribution_tokens =
                    info.remaining_contribution_tokens - b
               /\ T.FundBalance[pid] = FundBalance[pid] + paid - refund
               /\ T.FreePlmc[who] + T.NamedReserve[who]["Contributing"] =
                    FreePlmc[who] + NamedReserve[who]["Contributing"] - paid + refund
       /\ (info.exists /\ (\/ info.weighted_average_price = None
                           \/ info.project_status \notin {"CommunityRound", "RemainderRound"}))
            => T.res.err # "Ok" /\ StorageOf(T) = storage

(* bob has bought, one token is left, and a request for two succeeds *)
C21_Witness ==
  \E pid \in ProjectIds :
    /\ ProjectsDetails[pid].exists
    /\ ProjectsDetails[pid].remaining_contribution_tokens = 1
    /\ res.op = "contribute" /\ res.err = "Ok"
    /\ Len(Contributions[pid]["bob"]) > 0
    /\ DoContribute(Cur, "bob", pid, 2, 1).res.err = "Ok"

(* the project takes contributions now, and the currency can reserve the bond *)
ContributionReachesList(pid, who, bond) ==
  LET info == ProjectsDetails[pid]
  IN /\ info.exists
     /\ info.weighted_average_price # None
     /\ who # ProjectsIssuers[pid]
     /\ info.project_status \in {"CommunityRound", "RemainderRound"}
     /\ info.phase_transition_points.remainder.end # None
          => now < info.phase_transition_points.remainder.end
     /\ FreePlmc[who] >= bond

(* C22: no list of contributions is longer than MaxContributionsPerUser;   *)
(* on a full list a contribution that succeeds has a PLMC bond strictly    *)
(* above that of the last (lowest) entry, takes its place, and the dropped *)
(* entry's payment returns from the fund account while its bond leaves the *)
(* Contributing reserve and the Contributing bond record; a contribution   *)
(* whose bond is not strictly above is turned away with ContributionTooLow *)
(* and the list stays as it was                                            *)
C22_FullListEvictsLowest ==
  \A pid \in ProjectIds, who \in Users :
    /\ Len(Contributions[pid][who]) <= MaxContributionsPerUser
    /\ Len(Contributions[pid][who]) = MaxContributionsPerUser =>
         \A token_amount \in 0 .. MaxContribs, multiplier \in {1, 2} :
           LET T == DoContribute(Cur, who, pid, token_amount, multiplier)
               info == ProjectsDetails[pid]
               list == Contributions[pid][who]
               lowest == list[MaxContributionsPerUser]
               b == Min(token_amount, info.remaining_contribution_tokens)
               paid == b * info.weighted_average_price
               bond == paid \div multiplier
               after == T.Contributions[pid][who]
           IN /\ \A i \in 1 .. Len(list) :
                    list[i].plmc_vesting.amount >= lowest.plmc_vesting.amount
              /\ IF bond > lowest.plmc_vesting.amount
                 THEN /\ T.res.err # "ContributionTooLow"
                      /\ T.res.err = "Ok" =>
                           /\ Len(after) = MaxContributionsPerUser
                           /\ \E i \in 1 .. Len(after) :
                                 /\ after[i].plmc_vesting.amount = bond
                                 /\ after[i].contribution_amount = paid
                                 /\ RemoveAt(after, i) =
                                      SubSeq(list, 1, MaxContributionsPerUser - 1)
                           /\ T.FundBalance[pid] =
                                FundBalance[pid] - lowest.contribution_amount + paid
                           /\ T.NamedReserve[who]["Contributing"] =
                                NamedReserve[who]["Contributing"]
                                  - lowest.plmc_vesting.amount + bond
                           /\ T.ContributingBonds[pid][who] =
                                ContributingBonds[pid][who]
                                  - lowest.plmc_vesting.amount + bond
                 ELSE /\ T.res.err # "Ok"
                      /\ after = list
                      /\ ContributionReachesList(pid, who, bond)
                           => T.res.err = "ContributionTooLow"

(* bob's list was full, a contribution with a larger bond has just taken   *)
(* the place of the lowest, and one with a bond not above the new lowest   *)
(* is turned away                                                          *)
C22_Witness ==
  \E pid \in ProjectIds :
    /\ res.op = "contribute" /\ res.err = "Ok" /\ res.who = "bob"
    /\ Len(Contributions[pid]["bob"]) = MaxContributionsPerUser
    /\ Contributions[pid]["bob"][1].plmc_vesting.amount > 2
    /\ ProjectsDetails[pid].remaining_contribution_tokens > 0
    /\ DoContribute(Cur, "bob", pid, 1, 1).res.err = "ContributionTooLow"

(***************************************************************************)
(* Evaluation                                                              *)
(***************************************************************************)
(* the evaluation bonds of the project reach a tenth of its fundraising    *)
(* target, the tenth being taken to the nearest unit                       *)
ReachesTenth(pid) ==
  100 * SumBonds(EvaluationBonds, pid, Accounts)
    >= 10 * ProjectsDetails[pid].fundraising_target - 50

RECURSIVE SumValue(_, _)
SumValue(bids, squared) ==
  IF bids = <<>> THEN 0
  ELSE AcceptedAmount(Head(bids)) * Head(bids).price
         * (IF squared THEN Head(bids).price ELSE 1)
       + SumValue(Tail(bids), squared)

(* the whole units of the quotient p / q *)
WholeUnits(p, q) == p \div q

(* C25: once a project is cleared its stored clearing price is the         *)
(* value-weighted average of the prices of its accepted and partially      *)
(* accepted bids, sum(amount * price^2) / sum(amount * price), in whole     *)
(* units: 16 for the accepted bids 10,000 at 15, 20,000 at 20 and 20,000   *)
(* at 10, whose quotient is 12,250,000 / 750,000                           *)
C25_PriceIsValueWeightedAverage ==
  \A pid \in ProjectIds :
    (Cleared(pid) /\ PriceOf(pid) # None) =>
      LET bids == BidsOf(AuctionsInfo, pid, Accounts)
          accepted == { <<bids[i].amount, bids[i].price>> :
                          i \in { j \in 1 .. Len(bids) : bids[j].status.tag = "Accepted" } }
      IN (/\ accepted = ScenarioBids
          /\ SumAccepted(bids) = 50000
          /\ SumValue(bids, FALSE) = 750000
          /\ SumValue(bids, TRUE) = 12250000)
           => PriceOf(pid) = WholeUnits(SumValue(bids, TRUE), SumValue(bids, FALSE))

(***************************************************************************)
(* Bids                                                                    *)
(***************************************************************************)
(* the bid is one the validity checks of place_bid turn away *)
InvalidBid(pid, who, amount, price) ==
  LET project == ProjectsMetadata[pid]
  IN \/ who = ProjectsIssuers[pid]
     \/ StatusOf(pid) \notin {"English", "Candle"}
     \/ price < project.minimum_price
     \/ project.ticket_size.minimum # None /\ amount * price < project.ticket_size.minimum
     \/ project.ticket_size.maximum # None /\ amount * price > project.ticket_size.maximum

(* C26: a bid by the issuer, outside the English and Candle auction, below *)
(* the minimum price, or with amount * price below the minimum or above    *)
(* the maximum ticket size fails and writes nothing (no bid, no reserve,   *)
(* no bid id); a bid that succeeds is none of these and is stored with     *)
(* status YetUnknown under the id NextBidId, which then grows by one; the  *)
(* ids of the stored bids are distinct and below NextBidId, and NextBidId  *)
(* never falls                                                             *)
C26_InvalidBidIsRejected ==
  /\ [](\A pid \in ProjectIds :
          ProjectsDetails[pid].exists =>
            \A who \in Accounts, amount \in 0 .. MaxContribs, price \in 0 .. MaxBids :
              LET T == DoBid(Cur, who, pid, amount, price, 1)
                  list == T.AuctionsInfo[pid][who]
              IN /\ InvalidBid(pid, who, amount, price) =>
                      T.res.err # "Ok" /\ StorageOf(T) = storage
                 /\ T.res.err = "Ok" =>
                      /\ ~InvalidBid(pid, who, amount, price)
                      /\ T.NextBidId = NextBidId + 1
                      /\ \E i \in 1 .. Len(list) :
                            /\ list[i].bid_id = NextBidId
                            /\ list[i].status = StYetUnknown
                            /\ list[i].amount = amount /\ list[i].price = price
                            /\ list[i].bidder = who /\ list[i].project = pid)
  /\ [](\A p, q \in ProjectIds, a, b \in Accounts :
          \A i \in 1 .. Len(AuctionsInfo[p][a]), j \in 1 .. Len(AuctionsInfo[q][b]) :
            /\ AuctionsInfo[p][a][i].bid_id < NextBidId
            /\ AuctionsInfo[p][a][i].bid_id = AuctionsInfo[q][b][j].bid_id
                 => (p = q /\ a = b /\ i = j))
  /\ [][NextBidId' >= NextBidId]_vars

(* alice's bid has just been stored, and a bid above the maximum ticket    *)
(* size of the project is turned away                                      *)
C26_Witness ==
  \E pid \in ProjectIds :
    /\ ProjectsDetails[pid].exists
    /\ res = [op |-> "bid", pid |-> pid, who |-> "alice", err |-> "Ok"]
    /\ Len(AuctionsInfo[pid]["alice"]) > 0
    /\ ProjectsMetadata[pid].ticket_size.maximum # None
    /\ DoBid(Cur, "bob", pid, 3, 3, 1).res.err = "BidTooLow"

(***************************************************************************)
(* The end of the funding                                                  *)
(***************************************************************************)
(* C27: a project whose status is ReadyToLaunch keeps that status in every *)
(* step, whether the step is a user call or a block hook that runs an      *)
(* entry still scheduled for the project                                   *)
C27_ReadyToLaunchIsAbsorbing ==
  [][\A pid \in ProjectIds :
        (ProjectsDetails[pid].exists /\ StatusOf(pid) = "ReadyToLaunch")
          => StatusOf(pid)' = "ReadyToLaunch"]_vars

(***************************************************************************)
(* Claims of collateral                                                    *)
(***************************************************************************)
SaleRunning(pid) ==
  /\ ProjectsDetails[pid].exists
  /\ StatusOf(pid) \in {"English", "Candle", "CommunityRound", "RemainderRound"}

(* C28: while a project is in the auction round, the community round or    *)
(* the remainder round, a step of a claim operation on it (bid unbond or   *)
(* purchase unbond) leaves the Bidding and the Contributing reserve of     *)
(* every account as they were                                              *)
C28_CollateralLockedDuringSale ==
  [][\A pid \in ProjectIds :
        (/\ res'.op \in {"vested_plmc_bid_unbond_for", "vested_plmc_purchase_unbond_for"}
         /\ res'.pid = pid
         /\ SaleRunning(pid))
          => \A who \in Accounts :
               /\ NamedReserve'[who]["Bidding"] = NamedReserve[who]["Bidding"]
               /\ NamedReserve'[who]["Contributing"] = NamedReserve[who]["Contributing"]
    ]_vars

(***************************************************************************)
(* Contribution tokens                                                     *)
(***************************************************************************)
(* C29: the contribution tokens minted to a bidder of a project never      *)
(* exceed what the clearing accepted of the bids stored for that bidder:   *)
(* the whole amount of an Accepted bid, the accepted part of a             *)
(* PartiallyAccepted bid, nothing for a Rejected or YetUnknown bid         *)
C29_MintedWithinAccepted ==
  \A pid \in ProjectIds, who \in Accounts :
    AssetBalance[pid][who] <= SumAccepted(AuctionsInfo[pid][who])

(***************************************************************************)
(* Conservation of the tokens                                              *)
(***************************************************************************)
(* the tokens bought by the contributions stored in the lists of accts *)
RECURSIVE TokensBought(_, _, _)
TokensBought(C, pid, accts) ==
  IF accts = {} THEN 0
  ELSE LET a == CHOOSE x \in accts : TRUE
           Tokens(i) == C[pid][a][i].contribution_amount \div PriceOf(pid)
           Sum[i \in 0 .. Len(C[pid][a])] == IF i = 0 THEN 0 ELSE Tokens(i) + Sum[i - 1]
       IN Sum[Len(C[pid][a])] + TokensBought(C, pid, accts \ {a})

(* remaining tokens, accepted bid amounts and tokens bought by the stored   *)
(* contributions add up to the allocation                                  *)
Conserved(S, pid) ==
  S.ProjectsDetails[pid].remaining_contribution_tokens
    + AcceptedSum(S.AuctionsInfo, pid)
    + TokensBought(S.Contributions, pid, Accounts)
  = S.ProjectsMetadata[pid].total_allocation_size

(* C30: in a cleared project whose remaining_contribution_tokens, accepted *)
(* bid amounts and tokens bought by the stored contributions add up to its *)
(* total_allocation_size, they still do after every successful contribute, *)
(* also after one that drops a stored contribution and refunds it          *)
C30_TokensAreConserved ==
  \A pid \in ProjectIds :
    (Cleared(pid) /\ PriceOf(pid) # None /\ Conserved(Cur, pid)) =>
      \A who \in Users, token_amount \in 0 .. MaxContribs :
        LET T == DoContribute(Cur, who, pid, token_amount, 1)
        IN T.res.err = "Ok" => Conserved(T, pid)

(***************************************************************************)
(* Progress                                                                *)
(***************************************************************************)
Concluded(pid) ==
  /\ ProjectsDetails[pid].exists
  /\ StatusOf(pid) \in {"EvaluationFailed", "FundingEnded"}

(* a project left in the candle auction with no entry in the update store *)
StuckInCandle(pid) ==
  /\ ProjectsDetails[pid].exists
  /\ StatusOf(pid) = "Candle"
  /\ ~InUpdateStore(Cur, pid)

(* C31: with a block hook at every block, a project that is in             *)
(* EvaluationRound is later EvaluationFailed or FundingEnded, whatever     *)
(* bonds, bids and contributions are made, also when no bid is made        *)
C31_NoProjectGetsStuck ==
  \A pid \in ProjectIds :
    [](ProjectsDetails[pid].exists /\ StatusOf(pid) = "EvaluationRound"
         => <>Concluded(pid))

(* the same with the project the clearing left behind set aside *)
ConcludesUnlessStuckInCandle ==
  \A pid \in ProjectIds :
    [](ProjectsDetails[pid].exists /\ StatusOf(pid) = "EvaluationRound"
         => <>(Concluded(pid) \/ StuckInCandle(pid)))

(***************************************************************************)
(* The bids after the clearing                                             *)
(***************************************************************************)
(* the amounts of the bids at the positions idx *)
RECURSIVE SumAmounts(_, _)
SumAmounts(bids, idx) ==
  IF idx = {} THEN 0
  ELSE LET i == CHOOSE x \in idx : TRUE
       IN bids[i].amount + SumAmounts(bids, idx \ {i})

(* C32: after the clearing of a project at most one of its bids is         *)
(* PartiallyAccepted; its accepted amount is the total_allocation_size     *)
(* minus the amounts of the bids made by the cutoff that rank before it    *)
(* (higher price, or equal price and earlier submission), more than zero   *)
(* and less than its own amount; each of those bids is Accepted, and each  *)
(* bid made by the cutoff that ranks after it is Rejected(NoTokensLeft)    *)
C32_OnePartiallyAcceptedBid ==
  \A pid \in ProjectIds :
    Cleared(pid) =>
      LET bids == BidsOf(AuctionsInfo, pid, Accounts)
          early == { i \in 1 .. Len(bids) : PreCutoff(pid, bids[i]) }
          partial == { i \in 1 .. Len(bids) : bids[i].status.tag = "PartiallyAccepted" }
      IN /\ Cardinality(partial) <= 1
         /\ \A i \in partial :
              LET before == { j \in early : RanksBelow(bids[i], bids[j]) }
                  after == { j \in early : RanksBelow(bids[j], bids[i]) }
              IN /\ i \in early
                 /\ bids[i].status.amount =
                       ProjectsMetadata[pid].total_allocation_size - SumAmounts(bids, before)
                 /\ bids[i].status.amount > 0
                 /\ bids[i].status.amount < bids[i].amount
                 /\ bids[i].status.reason = "NoTokensLeft"
                 /\ \A j \in before : bids[j].status = StAccepted
                 /\ \A j \in after : bids[j].status = StRejected("NoTokensLeft")

(* the storage without the bids of pid made after block cutoff *)
EraseLateBids(S, pid, cutoff) ==
  [S EXCEPT !.AuctionsInfo[pid] =
      [a \in Accounts |-> SelectSeq(S.AuctionsInfo[pid][a], LAMBDA b : b.when <= cutoff)]]

(* every bid of a cleared project has the status its submission block      *)
(* asks for                                                                *)
BidsDecided(pid) ==
  LET bids == BidsOf(AuctionsInfo, pid, Accounts)
  IN \A i \in 1 .. Len(bids) :
       IF PreCutoff(pid, bids[i])
       THEN \/ bids[i].status.tag \in {"Accepted", "PartiallyAccepted"}
            \/ bids[i].status = StRejected("NoTokensLeft")
       ELSE bids[i].status = StRejected("AfterCandleEnd")

(* C33: after the clearing of a project every bid submitted after the      *)
(* stored cutoff block is Rejected(AfterCandleEnd) and every other bid is  *)
(* Accepted, PartiallyAccepted or Rejected(NoTokensLeft), so none is       *)
(* YetUnknown; and the step that clears the project leaves the clearing    *)
(* price and the remaining tokens that a clearing with the same cutoff     *)
(* leaves when the bids submitted after the cutoff are not there           *)
C33_LateBidsAreRejected ==
  /\ [](\A pid \in ProjectIds : Cleared(pid) => BidsDecided(pid))
  /\ [][\A pid \in ProjectIds :
          ClearingStep(pid) =>
            LET cutoff == ProjectsDetails'[pid].phase_transition_points.random_candle_ending
            IN /\ cutoff # None
               /\ \E random \in RandomValues, order \in KeyOrders :
                    LET early == DoCommunityFunding(
                                   EraseLateBids([Cur EXCEPT !.now = now + 1], pid, cutoff),
                                   pid, random, order)
                    IN /\ early.res.err = "Ok"
                       /\ early.ProjectsDetails[pid] = ProjectsDetails'[pid]]_vars

C33_Witness ==
  \E pid \in ProjectIds :
    /\ res = [op |-> "community_funding", pid |-> pid, who |-> "-", err |-> "Ok"]
    /\ Cleared(pid)
    /\ LET bids == BidsOf(AuctionsInfo, pid, Accounts)
       IN /\ \E i \in 1 .. Len(bids) : bids[i].status = StRejected("AfterCandleEnd")
          /\ \E i \in 1 .. Len(bids) : Winning(bids[i])

(***************************************************************************)
(* The cutoff block                                                        *)
(***************************************************************************)
(* the next block's bucket holds a clearing that passes the checks of      *)
(* do_community_funding and so draws a cutoff block                        *)
DrawDue(pid) ==
  /\ ClearingDue(pid)
  /\ ProjectsDetails[pid].exists
  /\ StatusOf(pid) = "Candle"
  /\ now + 1 > ProjectsDetails[pid].phase_transition_points.candle_auction.end

(* C34: whatever the randomness source returns and whatever the candle     *)
(* duration is, a block whose hook draws the cutoff of a project does not  *)
(* abort and raises the nonce by exactly one, and a cutoff that is stored  *)
(* lies in [candle start, candle end)                                      *)
C34_CutoffInsideCandle ==
  /\ [](\A pid \in ProjectIds :
          (ProjectsDetails[pid].exists
             /\ ProjectsDetails[pid].phase_transition_points.random_candle_ending # None)
            => LET points == ProjectsDetails[pid].phase_transition_points
               IN /\ points.candle_auction.start <= points.random_candle_ending
                  /\ points.random_candle_ending < points.candle_auction.end)
  /\ [][\A pid \in ProjectIds :
          (now' = now + 1 /\ DrawDue(pid)) =>
            /\ res'.err # "Panic"
            /\ Nonce' = Nonce + 1]_vars

(***************************************************************************)
(* Vesting                                                                 *)
(***************************************************************************)
(* what is left of the token schedules of a list of bids, of contributions *)
RECURSIVE SumCt(_)
SumCt(list) ==
  IF list = <<>> THEN 0
  ELSE Head(list).ct_vesting_period.amount + SumCt(Tail(list))

RECURSIVE SumContributionCt(_)
SumContributionCt(list) ==
  IF list = <<>> THEN 0
  ELSE Head(list).ct_vesting.amount + SumContributionCt(Tail(list))

(* each schedule still holds its original amount or nothing *)
SchedulesWholeOrEmpty ==
  \A pid \in ProjectIds, who \in Accounts :
    /\ \A i \in 1 .. Len(AuctionsInfo[pid][who]) :
         LET bid == AuctionsInfo[pid][who][i]
         IN /\ bid.plmc_vesting_period.amount \in {0, PlmcAmount(1, bid.amount, bid.price)}
            /\ bid.ct_vesting_period.amount \in {0, bid.amount}
    /\ \A i \in 1 .. Len(Contributions[pid][who]) :
         LET contribution == Contributions[pid][who][i]
         IN /\ contribution.plmc_vesting.amount \in {0, contribution.contribution_amount}
            /\ contribution.ct_vesting.amount * PriceOf(pid)
                 \in {0, contribution.contribution_amount}

(* a claim T of who on pid released or minted exactly `due`, left every    *)
(* schedule of the kind empty, and the same claim made again on T, which   *)
(* is T2, changes nothing                                                  *)
PaidInFull(T, T2, paid, due, left) ==
  /\ paid = due
  /\ left = 0
  /\ StorageOf(T2) = StorageOf(T)

(* C35: every schedule holds its original amount or nothing; a claim that  *)
(* succeeds (PLMC unbond of bids, token mint of bids, PLMC unbond of       *)
(* contributions, token mint of contributions) pays the account exactly    *)
(* what its schedules of that kind still hold and leaves them at 0, the    *)
(* same claim made again pays nothing and changes nothing, and a claim     *)
(* that fails changes nothing                                              *)
C35_ScheduleIsPaidOnce ==
  /\ SchedulesWholeOrEmpty
  /\ \A pid \in ProjectIds, who \in Users :
       LET bids == AuctionsInfo[pid][who]
           contributions == Contributions[pid][who]
           U == DoVestedPlmcBidUnbondFor(Cur, who, pid, who)
           M == DoVestedContributionTokenBidMintFor(Cur, who, pid, who)
           P == DoVestedPlmcPurchaseUnbondFor(Cur, who, pid, who)
           Q == DoVestedContributionTokenPurchaseMintFor(Cur, who, pid, who)
       IN /\ IF U.res.err = "Ok"
             THEN /\ PaidInFull(U, DoVestedPlmcBidUnbondFor(U, who, pid, who),
                                NamedReserve[who]["Bidding"] - U.NamedReserve[who]["Bidding"],
                                SumPlmc(bids), SumPlmc(U.AuctionsInfo[pid][who]))
                  /\ U.FreePlmc[who] = FreePlmc[who] + SumPlmc(bids)
                  /\ Len(U.AuctionsInfo[pid][who]) = Len(bids)
             ELSE StorageOf(U) = storage
          /\ IF M.res.err = "Ok"
             THEN /\ PaidInFull(M, DoVestedContributionTokenBidMintFor(M, who, pid, who),
                                M.AssetBalance[pid][who] - AssetBalance[pid][who],
                                SumCt(bids), SumCt(M.AuctionsInfo[pid][who]))
                  /\ Len(M.AuctionsInfo[pid][who]) = Len(bids)
             ELSE StorageOf(M) = storage
          /\ IF P.res.err = "Ok"
             THEN /\ PaidInFull(P, DoVestedPlmcPurchaseUnbondFor(P, who, pid, who),
                                NamedReserve[who]["Contributing"]
                                  - P.NamedReserve[who]["Contributing"],
                                SumContributionPlmc(contributions),
                                SumContributionPlmc(P.Contributions[pid][who]))
                  /\ P.FreePlmc[who] = FreePlmc[who] + SumContributionPlmc(contributions)
                  /\ Len(P.Contributions[pid][who]) = Len(contributions)
             ELSE StorageOf(P) = storage
          /\ IF Q.res.err = "Ok"
             THEN /\ PaidInFull(Q, DoVestedContributionTokenPurchaseMintFor(Q, who, pid, who),
                                Q.AssetBalance[pid][who] - AssetBalance[pid][who],
                                SumContributionCt(contributions),
                                SumContributionCt(Q.Contributions[pid][who]))
                  /\ Len(Q.Contributions[pid][who]) = Len(contributions)
             ELSE StorageOf(Q) = storage

C35_Witness ==
  \E pid \in ProjectIds :
    /\ res = [op |-> "vested_plmc_purchase_unbond_for", pid |-> pid, who |-> "bob", err |-> "Ok"]
    /\ Len(Contributions[pid]["bob"]) = MaxContributionsPerUser
    /\ SumContributionPlmc(Contributions[pid]["bob"]) = 0
    /\ SumContributionCt(Contributions[pid]["bob"]) > 0
    /\ SumPlmc(AuctionsInfo[pid]["alice"]) = 0
    /\ Len(AuctionsInfo[pid]["alice"]) > 0
    /\ pid \in Assets

(***************************************************************************)
(* The ends of the phases                                                  *)
(***************************************************************************)
(* the automatic transitions: the function, the phase whose recorded end   *)
(* it waits for, and its too-early error                                   *)
EndOfPhase(S, pid, phase) == S.ProjectsDetails[pid].phase_transition_points[phase].end

AutomaticTransitions ==
  { <<"EvaluationEnd", "evaluation", "EvaluationPeriodNotEnded">>,
    <<"CandleAuctionStart", "english_auction", "TooEarlyForCandleAuctionStart">>,
    <<"CommunityFundingStart", "candle_auction", "TooEarlyForCommunityRoundStart">>,
    <<"RemainderFundingStart", "community", "TooEarlyForRemainderRoundStart">> }

(* the phase starts: the function, the phase it starts, the action it      *)
(* schedules for the end of that phase                                     *)
PhaseStarts ==
  { <<"EvaluationStart", "evaluation", "EvaluationEnd">>,
    <<"EnglishAuctionStart", "english_auction", "CandleAuctionStart">>,
    <<"CandleAuctionStart", "candle_auction", "CommunityFundingStart">>,
    <<"CommunityFundingStart", "community", "RemainderFundingStart">>,
    <<"RemainderFundingStart", "remainder", "FundingEnd">> }

Transition(S, pid, update_type, random) ==
  IF update_type = "EvaluationStart" THEN DoEvaluationStart(S, pid)
  ELSE Dispatch(S, <<pid, update_type>>, random, AnyOrder)

Occurrences(bucket, entry) ==
  Cardinality({ i \in 1 .. Len(bucket) : bucket[i] = entry })

(* T holds entry once more than the storage does now, in a bucket after    *)
(* block end, and in no bucket up to block end more often than now         *)
ScheduledAfter(T, end, entry) ==
  /\ \E b \in Blocks :
       /\ b >= end + 1
       /\ Occurrences(T.ProjectsToUpdate[b], entry)
            = Occurrences(ProjectsToUpdate[b], entry) + 1
  /\ \A b \in Blocks :
       b <= end => Occurrences(T.ProjectsToUpdate[b], entry)
                     <= Occurrences(ProjectsToUpdate[b], entry)

(* C36: end_evaluation, start_candle_auction, start_community_round and    *)
(* start_remainder_round, invoked in a block that is not past the recorded *)
(* end of the phase they close, fail with their too-early error and change *)
(* nothing, so they succeed only in a later block; and every phase start   *)
(* that succeeds puts the action for the end of its phase into a bucket at *)
(* the recorded end + 1 or later                                           *)
C36_TransitionsWaitForTheEnd ==
  \A pid \in ProjectIds, random \in RandomValues :
    ProjectsDetails[pid].exists =>
      /\ \A a \in AutomaticTransitions :
           LET T == Transition(Cur, pid, a[1], random)
               end == EndOfPhase(Cur, pid, a[2])
           IN /\ (end # None /\ now <= end) =>
                    (T.res.err = a[3] /\ StorageOf(T) = storage)
              /\ T.res.err = "Ok" => (end # None /\ now > end)
      /\ \A p \in PhaseStarts :
           LET T == Transition(Cur, pid, p[1], random)
           IN T.res.err = "Ok" =>
                /\ EndOfPhase(T, pid, p[2]) # None
                /\ ScheduledAfter(T, EndOfPhase(T, pid, p[2]), <<pid, p[3]>>)

C36_Witness ==
  \E pid \in ProjectIds :
    /\ res = [op |-> "community_funding", pid |-> pid, who |-> "-", err |-> "Ok"]
    /\ StatusOf(pid) = "CommunityRound"
    /\ now <= EndOfPhase(Cur, pid, "community")
    /\ DoRemainderFunding(Cur, pid).res.err = "TooEarlyForRemainderRoundStart"
    /\ HasEntry(ProjectsToUpdate, EndOfPhase(Cur, pid, "community") + 1, pid)

RECURSIVE SumTickets(_)
SumTickets(bids) ==
  IF bids = <<>> THEN 0 ELSE Head(bids).ticket_size + SumTickets(Tail(bids))

RECURSIVE SumTicketsOf(_, _)
SumTicketsOf(info, pids) ==
  IF pids = {} THEN <<>>
  ELSE LET pid == CHOOSE x \in pids : TRUE
       IN info[pid] \o SumTicketsOf(info, pids \ {pid})

(* the list is ordered by price descending; among equal prices the bid     *)
(* submitted earlier (the lower bid id) comes first                        *)
PriceDescending(bids) ==
  \A i, j \in 1 .. Len(bids) :
    i < j => \/ bids[i].price > bids[j].price
             \/ bids[i].price = bids[j].price /\ bids[i].bid_id < bids[j].bid_id

(* C37: every (project, bidder) bid list holds at most MaximumBidsPerUser  *)
(* bids, is sorted by price descending with the earlier bid first among    *)
(* equal prices, holds no bid id twice, and the bidder's reserved funding  *)
(* currency is the sum of ticket_size over all the bids stored for them    *)
C37_BidListsAreBoundedSortedAndReserved ==
  \A who \in Accounts :
    /\ \A pid \in ProjectIds :
         LET bids == AuctionsInfo[pid][who]
         IN /\ Len(bids) <= MaximumBidsPerUser
            /\ PriceDescending(bids)
            /\ \A i, j \in 1 .. Len(bids) : bids[i].bid_id = bids[j].bid_id => i = j
    /\ ReservedFunding[who]
         = SumTickets(SumTicketsOf([pid \in ProjectIds |-> AuctionsInfo[pid][who]], ProjectIds))

WinningPrices(pid) ==
  LET bids == BidsOf(AuctionsInfo, pid, Accounts)
  IN { bids[i].price : i \in { k \in 1 .. Len(bids) : Winning(bids[k]) } }

(* C38: once the auction of a project is cleared, the stored               *)
(* weighted_average_price is not below the lowest and not above the        *)
(* highest price among its Accepted and PartiallyAccepted bids, and so not *)
(* below the minimum price of the project                                  *)
C38_ClearingPriceBetweenWinningPrices ==
  \A pid \in ProjectIds :
    Cleared(pid) =>
      /\ \E price \in WinningPrices(pid) :
           price <= ProjectsDetails[pid].weighted_average_price
      /\ \E price \in WinningPrices(pid) :
           ProjectsDetails[pid].weighted_average_price <= price
      /\ ProjectsDetails[pid].weighted_average_price >= ProjectsMetadata[pid].minimum_price

(* the hash is carried by a project other than pid *)
CarriedByAnother(hash, pid) ==
  \E other \in ProjectIds :
    /\ other # pid
    /\ ProjectsDetails[other].exists
    /\ ProjectsMetadata[other].hash = hash

(* C39: no two projects carry the same offchain_information_hash, and a    *)
(* create or an edit_metadata that supplies a hash carried by another      *)
(* project fails with MetadataAlreadyExists                                *)
C39_MetadataHashesAreUnique ==
  /\ \A pid \in ProjectIds :
       (ProjectsDetails[pid].exists /\ ProjectsMetadata[pid].hash # None)
         => ~CarriedByAnother(ProjectsMetadata[pid].hash, pid)
  /\ \A project \in MetadataInputs :
       CarriedByAnother(project.hash, NextProjectId)
         => DoCreate(Cur, Issuer, project).res.err = "MetadataAlreadyExists"
  /\ \A pid \in ProjectIds, hash \in Hashes :
       (ProjectsDetails[pid].exists /\ ~ProjectsDetails[pid].is_frozen
          /\ CarriedByAnother(hash, pid))
         => DoEditMetadata(Cur, Issuer, pid, hash).res.err = "MetadataAlreadyExists"

Concluding == {"FundingSuccessful", "FundingFailed", "EvaluationFailed"}

====
